---- MODULE Spec2Model ----
(***************************************************************************)
(* A model of the memory profiler's log parsing (memory_parser.py,         *)
(* memory_profiler/parser.py) and of ttchop's hierarchical op-by-op runner *)
(* (ttchop/op_by_op_runner.py), its log parser, module extractor, module   *)
(* tree and command line (ttchop/log_parser.py, module_extractor.py,       *)
(* module_tree.py, cli.py).                                                *)
(*                                                                         *)
(* A log line is a record that carries what the regular expressions of the *)
(* parsers read from its text: its kind (which markers it contains) and    *)
(* the fields the parsers extract from it.  Python's None is the string    *)
(* "None" for string-valued fields.  Code indices stay 0-based: At(s, k)   *)
(* is s[k] of the code.                                                    *)
(***************************************************************************)
EXTENDS Integers, Sequences, FiniteSets, TLC

VARIABLES
    pc,                      \* position of the modelled program
    lines,                   \* the log file's lines
    registry_output,         \* whether a registry output path was given
    registry,                \* entries parse_inputs_registry finds in the log
    i,                       \* parse_log_file: index of the current line
    op_index,
    skipped_ops,
    deallocate_count,
    get_device_count,
    const_eval_stack,
    const_eval_cache_misses,
    const_eval_ops_count,
    live_tensors,
    operations,
    memory_stats,
    const_eval_weights,
    derived_weights,
    changed,
    mem_file,                \* the memory JSON written (metadata-wrapped)
    ops_file,                \* the operations JSON written (bare array)
    valid,                   \* what validate_outputs returned
    start_idx,               \* parse_memory_stats: its argument
    mem_info,                \* parse_memory_stats: its result
    n_nodes,                 \* number of ModuleNodes of the tree, 0 for no root
    parent,                  \* parent[k]: the node whose children hold k, 0 for the root
    class_name,
    module_id,
    root_only,
    status,                  \* node.status, None until set
    failed_ops,              \* node.failed_ops
    exported,                \* run_hierarchical_op_by_op's set of exported ids
    pending,                 \* analyze calls not yet made, the next one first
    export_calls,            \* per node: _export_ir calls made for it
    test_results,            \* per node: what _run_op_by_op returned for it, in call order
    log_lines,               \* parse_op_by_op_log: the lines of op_by_op.log
    log_pos,                 \* parse_op_by_op_log: lines consumed by its loop
    blocks,
    current_block,
    sub_depth,
    collecting_error,
    modules,                 \* build_module_tree: modules_data["modules"]
    tree_root,               \* build_module_tree: module_path of the node returned
    tree_children,           \* per module_path: the module_paths of node.children
    named_modules,           \* extract_unique_modules: model.named_modules() with shapes
    unique_modules,          \* extract_unique_modules: result["modules"]
    total_modules,           \* extract_unique_modules: result["metadata"]["total_modules"]
    stages,                  \* ttchop CLI: the stages started, in order
    failures,                \* ttchop CLI: the steps that failed
    exit_code,               \* ttchop CLI: the process's exit code, None while it runs
    log_file,                \* extract_last_run: the content of the file at log_file_path
    trim_calls,              \* extract_last_run: the file's content before each call made
    mem_data,                \* find_peak_memory: the list json.load returns
    memory_type,             \* find_peak_memory: its argument
    peak,                    \* find_peak_memory: the tuple returned
    type_str,                \* parse_tensor_layout_info: its argument, as its regexes read it
    layout_info,             \* parse_tensor_layout_info: what the call produced
    report_modules,          \* generate_summary: data["modules"] of unique_modules.json
    unique_ops,              \* generate_summary: what _collect_unique_failed_ops returned
    summary_md,              \* generate_summary: the header and body written to summary.md
    viz_modules,             \* visualizer _build_tree: data["modules"]
    by_path,                 \* visualizer _build_tree: the nodes of by_path, in insertion order
    viz_tree                 \* visualizer _build_tree: the root returned and every node's children

parserVars == <<lines, registry_output, registry, i, op_index, skipped_ops,
                deallocate_count, get_device_count, const_eval_stack,
                const_eval_cache_misses, const_eval_ops_count, live_tensors,
                operations, memory_stats, const_eval_weights, derived_weights,
                changed, mem_file, ops_file, valid>>

memStatsVars == <<start_idx, mem_info>>

treeVars == <<n_nodes, parent, class_name, module_id, root_only>>

runnerVars == <<treeVars, status, failed_ops, exported, pending, export_calls,
                test_results>>

logVars == <<log_lines, log_pos, blocks, current_block, sub_depth,
             collecting_error>>

\* the state of ttchop's other tools
treeBuildVars == <<modules, tree_root, tree_children>>

extractVars == <<named_modules, unique_modules, total_modules>>

cliVars == <<stages, failures, exit_code>>

\* the state of the profiler's and ttchop's reporting tools
trimVars == <<log_file, trim_calls>>

peakVars == <<mem_data, memory_type, peak>>

layoutVars == <<type_str, layout_info>>

summaryVars == <<report_modules, unique_ops, summary_md>>

vizVars == <<viz_modules, by_path, viz_tree>>

analysisVars == <<trimVars, peakVars, layoutVars, summaryVars, vizVars>>

toolVars == <<logVars, treeBuildVars, extractVars, cliVars, analysisVars>>

vars == <<pc, parserVars, memStatsVars, runnerVars, toolVars>>

----------------------------------------------------------------------------
(* Bounds of the model *)

MaxItems == 3          \* a log is at most this many items (see Items)
MaxStatLines == 5      \* longest line list handed to parse_memory_stats alone

----------------------------------------------------------------------------
(* Sequences *)

At(s, k) == s[k + 1]

RECURSIVE Flatten(_)
Flatten(ss) == IF ss = <<>> THEN <<>> ELSE Head(ss) \o Flatten(Tail(ss))

SeqsUpTo(S, n) == UNION {[1..k -> S] : k \in 0..n}

Range(s) == {s[k] : k \in DOMAIN s}

None == "None"

----------------------------------------------------------------------------
(* Log lines *)

NoView == [present |-> FALSE, numBanks |-> 0, allocated |-> 0]

NoLayout == [present |-> FALSE, buffer_type |-> None,
             unpadded_bytes |-> 0, padded_bytes |-> 0]

NoOp == [result |-> None, mlir_op |-> None, inputs |-> <<>>,
         input_shapes |-> <<>>, output_layout_info |-> NoLayout, loc |-> None]

Line(kind, name, parses, op, label, view) ==
    [kind |-> kind, name |-> name, parses |-> parses, op |-> op,
     label |-> label, view |-> view]

\* "Cache miss or invalid cache for function: <name>"
CacheMissLine(name) == Line("cache_miss", name, FALSE, NoOp, None, NoView)
\* "Starting execution of program: <name>"
StartLine(name) == Line("start", name, FALSE, NoOp, None, NoView)
\* "Finished execution of program: <name>"
FinishLine(name) == Line("finish", name, FALSE, NoOp, None, NoView)
\* "RuntimeTTNN ... Executing operation: <op text>"; parses is whether
\* parse_mlir_operation finds an operator-call pattern in it, op what it reads
ExecLine(op) == Line("exec", None, TRUE, op, None, NoView)
BadExecLine == Line("exec", None, FALSE, NoOp, None, NoView)
\* "Device memory state before operation <name>"
MemHeader(name) == Line("mem_header", name, FALSE, NoOp, None, NoView)
\* "Device <label> memory state: MemoryView{...}"
MemLine(label, view) == Line("mem_state", None, FALSE, NoOp, label, view)
OtherLine == Line("other", None, FALSE, NoOp, None, NoView)

View(banks, alloc) == [present |-> TRUE, numBanks |-> banks, allocated |-> alloc]

Layout(buf, unpadded, padded) ==
    [present |-> TRUE, buffer_type |-> buf,
     unpadded_bytes |-> unpadded, padded_bytes |-> padded]

Op(result, mlir_op, inputs, shapes, layout, loc) ==
    [result |-> result, mlir_op |-> mlir_op, inputs |-> inputs,
     input_shapes |-> shapes, output_layout_info |-> layout, loc |-> loc]

----------------------------------------------------------------------------
(* memory_parser.py *)

memory_types == <<"DRAM", "L1", "L1_SMALL", "TRACE">>

\* mem_type.replace("_", " ")
SearchType(mem_type) == IF mem_type = "L1_SMALL" THEN "L1 SMALL" ELSE mem_type

\* parse_memory_view: the MemoryView{...} statistics of a line, NoView when
\* the line holds none that parse
ParseMemoryView(line) == line.view

\* variant: the label is compared with the key, not with its search form
LabelMatches_Key(line, mem_type) ==
    line.kind = "mem_state" /\ line.label = mem_type

\* f"Device {mem_type} memory state" in line or the search_type variant
LabelMatches(line, mem_type) ==
    /\ line.kind = "mem_state"
    /\ line.label \in {mem_type, SearchType(mem_type)}

NoMemInfo == [found |-> FALSE, op_type |-> None, memory |-> <<>>]

\* the memory spaces parse_memory_stats records: space k (0-based) is read
\* from line start + k + 1 only
MemoryData(ls, start) ==
    LET hit == {k \in 0..3 :
                   /\ start + k + 1 < Len(ls)
                   /\ LabelMatches(At(ls, start + k + 1), At(memory_types, k))
                   /\ ParseMemoryView(At(ls, start + k + 1)).present}
    IN [t \in {At(memory_types, k) : k \in hit} |->
           LET k == CHOOSE k \in hit : At(memory_types, k) = t
           IN ParseMemoryView(At(ls, start + k + 1))]

ParseMemoryStats(ls, start) ==
    IF start >= Len(ls) THEN NoMemInfo
    ELSE IF At(ls, start).kind # "mem_header" THEN NoMemInfo
    ELSE IF DOMAIN MemoryData(ls, start) = {} THEN NoMemInfo
    ELSE [found |-> TRUE, op_type |-> At(ls, start).name,
          memory |-> MemoryData(ls, start)]

----------------------------------------------------------------------------
(* The program names, operator names and operands of the modelled logs *)

CE0 == "main_const_eval_0"
CE1 == "main_const_eval_1"

\* "const_eval" in program_name
ContainsConstEval(name) == name \in {CE0, CE1}

\* "deallocate" in mlir_op, "get_device" in mlir_op, "load_cached" in mlir_op
IsDeallocate(mlir_op) == mlir_op = "ttnn.deallocate"
IsGetDevice(mlir_op) == mlir_op = "ttnn.get_device"
IsLoadCached(mlir_op) == mlir_op = "ttcore.load_cached"

\* inp.startswith("@") and inp[1:]
IsFuncRef(inp) == inp \in {"@main_const_eval_0", "@main_const_eval_1"}
FuncRefName(inp) == IF inp = "@main_const_eval_0" THEN CE0 ELSE CE1

----------------------------------------------------------------------------
(* parser.py: calculate_unpadded_memory_state *)

\* buf_type.upper()
Upper(buf_type) ==
    CASE buf_type = "dram" -> "DRAM"
      [] buf_type = "l1" -> "L1"
      [] OTHER -> buf_type

RECURSIVE SumBytes(_, _, _)
SumBytes(live, names, padded) ==
    IF names = {} THEN 0
    ELSE LET n == CHOOSE n \in names : TRUE
         IN (IF padded THEN live[n].padded_bytes ELSE live[n].unpadded_bytes)
            + SumBytes(live, names \ {n}, padded)

CalculateUnpaddedMemoryState(live) ==
    [mem_type \in {"DRAM", "L1"} |->
        LET names == {n \in DOMAIN live :
                         /\ live[n].buffer_type # None
                         /\ Upper(live[n].buffer_type) = mem_type}
        IN [unpadded_bytes |-> SumBytes(live, names, FALSE),
            padded_bytes |-> SumBytes(live, names, TRUE),
            num_tensors |-> Cardinality(names)]]

----------------------------------------------------------------------------
(* parser.py: parse_log_file, the scan of the log (lines 116-232) *)

\* lines 120-125
CacheMissesAfter(line, misses) ==
    IF line.kind = "cache_miss" THEN misses \cup {line.name} ELSE misses

\* lines 128-134
StackAfterStart(line, stack) ==
    IF line.kind = "start" /\ ContainsConstEval(line.name)
    THEN Append(stack, line.name) ELSE stack

OpsCountAfterStart(line, count) ==
    IF /\ line.kind = "start"
       /\ ContainsConstEval(line.name)
       /\ line.name \notin DOMAIN count
    THEN [n \in DOMAIN count \cup {line.name} |->
             IF n = line.name THEN 0 ELSE count[n]]
    ELSE count

\* variant: a Finished line pops whatever is on top
StackAfterFinish_AnyFinish(line, stack) ==
    IF /\ line.kind = "finish"
       /\ ContainsConstEval(line.name)
       /\ stack # <<>>
    THEN SubSeq(stack, 1, Len(stack) - 1) ELSE stack

\* lines 137-145
StackAfterFinish(line, stack) ==
    IF /\ line.kind = "finish"
       /\ ContainsConstEval(line.name)
       /\ stack # <<>>
       /\ stack[Len(stack)] = line.name
    THEN SubSeq(stack, 1, Len(stack) - 1) ELSE stack

StackAfterMarkers(line, stack) == StackAfterFinish(line, StackAfterStart(line, stack))

\* "Executing operation:" in line and "RuntimeTTNN" in line
IsExecLine(line) == line.kind = "exec"

\* lines 213-216
TracksResult(op) ==
    /\ op.result # None
    /\ op.output_layout_info.present
    /\ op.output_layout_info.buffer_type \in {"dram", "l1"}

LiveAfterEmit(op, live) ==
    IF TracksResult(op)
    THEN [n \in DOMAIN live \cup {op.result} |->
             IF n = op.result THEN op.output_layout_info ELSE live[n]]
    ELSE live

\* variant: a deallocate leaves live_tensors alone
LiveAfterDeallocate_Keeps(op, live) == live

\* lines 163-166
LiveAfterDeallocate(op, live) ==
    IF op.inputs # <<>> /\ At(op.inputs, 0) \in DOMAIN live
    THEN [n \in DOMAIN live \ {At(op.inputs, 0)} |-> live[n]]
    ELSE live

\* lines 181-210: the Operation Record
OpRecord(op, index, stack, misses) ==
    [result |-> op.result, mlir_op |-> op.mlir_op, inputs |-> op.inputs,
     input_shapes |-> op.input_shapes,
     output_layout_info |-> op.output_layout_info, loc |-> op.loc,
     index |-> index,
     const_eval_graph |-> IF stack # <<>> THEN stack[Len(stack)] ELSE None,
     const_eval_cache_miss |-> stack # <<>> /\ stack[Len(stack)] \in misses,
     is_weight_op |-> stack # <<>>,
     has_weights |-> FALSE, weights |-> <<>>]

\* lines 182-210, 219-220: the Memory Record
MemRecord(info, op, index, stack, misses, live) ==
    [op_type |-> info.op_type, memory |-> info.memory,
     index |-> index, mlir_op |-> op.mlir_op, loc |-> op.loc,
     const_eval_graph |-> IF stack # <<>> THEN stack[Len(stack)] ELSE None,
     const_eval_cache_miss |-> stack # <<>> /\ stack[Len(stack)] \in misses,
     is_weight_op |-> stack # <<>>,
     unpadded_memory |-> CalculateUnpaddedMemoryState(live)]

\* what every iteration does before it looks for an operation (lines 117-145)
Markers(line) ==
    /\ const_eval_cache_misses' = CacheMissesAfter(line, const_eval_cache_misses)
    /\ const_eval_stack' = StackAfterMarkers(line, const_eval_stack)

passVars == <<const_eval_weights, derived_weights, changed>>
fileVars == <<mem_file, ops_file, valid>>
inputVars == <<lines, registry_output, registry>>

\* a line that is no operation line
ScanPlain ==
    /\ pc = "scan" /\ i < Len(lines)
    /\ LET line == At(lines, i) IN
        /\ ~IsExecLine(line)
        /\ Markers(line)
        /\ const_eval_ops_count' = OpsCountAfterStart(line, const_eval_ops_count)
    /\ i' = i + 1
    /\ UNCHANGED <<pc, inputVars, op_index, skipped_ops, deallocate_count,
                   get_device_count, live_tensors, operations, memory_stats,
                   passVars, fileVars, memStatsVars, toolVars, runnerVars>>

\* lines 151-157: parse_mlir_operation finds no operation
ScanParseFail ==
    /\ pc = "scan" /\ i < Len(lines)
    /\ LET line == At(lines, i) IN
        /\ IsExecLine(line) /\ ~line.parses
        /\ Markers(line)
        /\ const_eval_ops_count' = OpsCountAfterStart(line, const_eval_ops_count)
    /\ i' = i + 1
    /\ skipped_ops' = skipped_ops + 1
    /\ UNCHANGED <<pc, inputVars, op_index, deallocate_count,
                   get_device_count, live_tensors, operations, memory_stats,
                   passVars, fileVars, memStatsVars, toolVars, runnerVars>>

\* lines 160-168
ScanDeallocate ==
    /\ pc = "scan" /\ i < Len(lines)
    /\ LET line == At(lines, i) IN
        /\ IsExecLine(line) /\ line.parses
        /\ IsDeallocate(line.op.mlir_op)
        /\ Markers(line)
        /\ const_eval_ops_count' = OpsCountAfterStart(line, const_eval_ops_count)
        /\ live_tensors' = LiveAfterDeallocate(line.op, live_tensors)
    /\ deallocate_count' = deallocate_count + 1
    /\ i' = i + 1
    /\ UNCHANGED <<pc, inputVars, op_index, skipped_ops, get_device_count,
                   operations, memory_stats, passVars, fileVars, memStatsVars, toolVars, runnerVars>>

\* lines 171-174
ScanGetDevice ==
    /\ pc = "scan" /\ i < Len(lines)
    /\ LET line == At(lines, i) IN
        /\ IsExecLine(line) /\ line.parses
        /\ ~IsDeallocate(line.op.mlir_op)
        /\ IsGetDevice(line.op.mlir_op)
        /\ Markers(line)
        /\ const_eval_ops_count' = OpsCountAfterStart(line, const_eval_ops_count)
    /\ get_device_count' = get_device_count + 1
    /\ i' = i + 1
    /\ UNCHANGED <<pc, inputVars, op_index, skipped_ops, deallocate_count,
                   live_tensors, operations, memory_stats, passVars, fileVars,
                   memStatsVars, toolVars, runnerVars>>

\* lines 177-224: the operation has memory statistics, a record pair is emitted
ScanEmit ==
    /\ pc = "scan" /\ i < Len(lines)
    /\ LET line == At(lines, i)
           info == ParseMemoryStats(lines, i + 1)
           stack == StackAfterMarkers(line, const_eval_stack)
           misses == CacheMissesAfter(line, const_eval_cache_misses)
           count == OpsCountAfterStart(line, const_eval_ops_count)
           live == LiveAfterEmit(line.op, live_tensors)
       IN
        /\ IsExecLine(line) /\ line.parses
        /\ ~IsDeallocate(line.op.mlir_op)
        /\ ~IsGetDevice(line.op.mlir_op)
        /\ info.found
        /\ Markers(line)
        /\ const_eval_ops_count' =
              IF stack # <<>>
              THEN [count EXCEPT ![stack[Len(stack)]] = @ + 1]
              ELSE count
        /\ live_tensors' = live
        /\ operations' = Append(operations, OpRecord(line.op, op_index, stack, misses))
        /\ memory_stats' = Append(memory_stats,
                                  MemRecord(info, line.op, op_index, stack, misses, live))
    /\ op_index' = op_index + 1
    /\ i' = i + 1
    /\ UNCHANGED <<pc, inputVars, skipped_ops, deallocate_count,
                   get_device_count, passVars, fileVars, memStatsVars, toolVars, runnerVars>>

\* lines 225-230: no memory statistics follow the operation
\* variant: the operation record is appended before mem_info is looked at
ScanNoStats_AppendsOp ==
    /\ pc = "scan" /\ i < Len(lines)
    /\ LET line == At(lines, i) IN
        /\ IsExecLine(line) /\ line.parses
        /\ ~IsDeallocate(line.op.mlir_op)
        /\ ~IsGetDevice(line.op.mlir_op)
        /\ ~ParseMemoryStats(lines, i + 1).found
        /\ Markers(line)
        /\ const_eval_ops_count' = OpsCountAfterStart(line, const_eval_ops_count)
        /\ operations' = Append(operations,
               OpRecord(line.op, op_index, StackAfterMarkers(line, const_eval_stack),
                        CacheMissesAfter(line, const_eval_cache_misses)))
    /\ skipped_ops' = skipped_ops + 1
    /\ i' = i + 1
    /\ UNCHANGED <<pc, inputVars, op_index, deallocate_count,
                   get_device_count, live_tensors, memory_stats,
                   passVars, fileVars, memStatsVars, toolVars, runnerVars>>

\* variant: a record pair is emitted whether or not mem_info was found
ScanNoStats_Emits ==
    /\ pc = "scan" /\ i < Len(lines)
    /\ LET line == At(lines, i)
           stack == StackAfterMarkers(line, const_eval_stack)
           misses == CacheMissesAfter(line, const_eval_cache_misses)
       IN
        /\ IsExecLine(line) /\ line.parses
        /\ ~IsDeallocate(line.op.mlir_op)
        /\ ~IsGetDevice(line.op.mlir_op)
        /\ ~ParseMemoryStats(lines, i + 1).found
        /\ Markers(line)
        /\ const_eval_ops_count' = OpsCountAfterStart(line, const_eval_ops_count)
        /\ operations' = Append(operations,
               OpRecord(line.op, op_index, stack, misses))
        /\ memory_stats' = Append(memory_stats,
               MemRecord(NoMemInfo, line.op, op_index, stack, misses, live_tensors))
    /\ op_index' = op_index + 1
    /\ i' = i + 1
    /\ UNCHANGED <<pc, inputVars, skipped_ops, deallocate_count,
                   get_device_count, live_tensors, passVars, fileVars,
                   memStatsVars, toolVars, runnerVars>>

ScanNoStats ==
    /\ pc = "scan" /\ i < Len(lines)
    /\ LET line == At(lines, i) IN
        /\ IsExecLine(line) /\ line.parses
        /\ ~IsDeallocate(line.op.mlir_op)
        /\ ~IsGetDevice(line.op.mlir_op)
        /\ ~ParseMemoryStats(lines, i + 1).found
        /\ Markers(line)
        /\ const_eval_ops_count' = OpsCountAfterStart(line, const_eval_ops_count)
    /\ skipped_ops' = skipped_ops + 1
    /\ i' = i + 1
    /\ UNCHANGED <<pc, inputVars, op_index, deallocate_count,
                   get_device_count, live_tensors, operations, memory_stats,
                   passVars, fileVars, memStatsVars, toolVars, runnerVars>>

\* line 116 fails, line 237 decides whether weights are propagated
ScanEnd ==
    /\ pc = "scan" /\ i >= Len(lines)
    /\ pc' = IF registry_output THEN "pass1" ELSE "write"
    /\ UNCHANGED <<parserVars, memStatsVars, toolVars, runnerVars>>

----------------------------------------------------------------------------
(* parser.py: parse_log_file, weight propagation (lines 234-369) *)

SetMax(S) == CHOOSE m \in S : \A n \in S : n <= m

IsWeightEntry(entry) == entry.type \in {"parameter", "constant"}

\* shape in weight_lookup_by_shape
InWeightLookup(reg, shape) ==
    \E k \in DOMAIN reg : IsWeightEntry(reg[k]) /\ reg[k].shape = shape

\* weight_lookup_by_shape[shape]: a later entry of a shape replaces an earlier
WeightLookupByShape(reg, shape) ==
    reg[SetMax({k \in DOMAIN reg : IsWeightEntry(reg[k]) /\ reg[k].shape = shape})]

WeightRef(w) == [registry_index |-> w.index, name |-> w.name, shape |-> w.shape]

HasIndex(weights, index) ==
    \E k \in DOMAIN weights : weights[k].registry_index = index

\* lines 264-275: one reference per matching input shape, duplicates kept
RECURSIVE MatchShapes(_, _)
MatchShapes(reg, shapes) ==
    IF shapes = <<>> THEN <<>>
    ELSE LET shape == Head(shapes)
             rest == MatchShapes(reg, Tail(shapes))
         IN IF shape # None /\ InWeightLookup(reg, shape)
            THEN <<WeightRef(WeightLookupByShape(reg, shape))>> \o rest
            ELSE rest

\* lines 303-320: one reference per registry index
RECURSIVE MatchShapesOnce(_, _, _)
MatchShapesOnce(reg, shapes, weights) ==
    IF shapes = <<>> THEN weights
    ELSE LET shape == Head(shapes) IN
         IF /\ shape # None
            /\ InWeightLookup(reg, shape)
            /\ ~HasIndex(weights, WeightLookupByShape(reg, shape).index)
         THEN MatchShapesOnce(reg, Tail(shapes),
                  Append(weights, WeightRef(WeightLookupByShape(reg, shape))))
         ELSE MatchShapesOnce(reg, Tail(shapes), weights)

\* lines 257-261: the last "@name" operand, without its "@"
ConstEvalName(op) ==
    LET refs == {k \in DOMAIN op.inputs : IsFuncRef(op.inputs[k])}
    IN IF refs = {} THEN None ELSE FuncRefName(op.inputs[SetMax(refs)])

\* lines 254-282
FirstPassOps(ops, reg) ==
    [k \in DOMAIN ops |->
        IF IsLoadCached(ops[k].mlir_op)
        THEN [ops[k] EXCEPT !.weights = MatchShapes(reg, ops[k].input_shapes),
                            !.has_weights = TRUE]
        ELSE ops[k]]

\* variant: pass 1 records nothing in const_eval_weights
FirstPassWeights_Unrecorded(ops, reg) == <<>>

FirstPassWeights(ops, reg) ==
    LET loads == {k \in DOMAIN ops :
                     /\ IsLoadCached(ops[k].mlir_op)
                     /\ ConstEvalName(ops[k]) # None
                     /\ MatchShapes(reg, ops[k].input_shapes) # <<>>}
    IN [key \in {<<ConstEvalName(ops[k]), <<ops[k].index>>>> : k \in loads} |->
           LET k == CHOOSE k \in loads :
                        key = <<ConstEvalName(ops[k]), <<ops[k].index>>>>
           IN MatchShapes(reg, ops[k].input_shapes)]

\* lines 286-321; cur is current_load_cached_idx, <<>> for None
RECURSIVE SecondPass(_, _, _, _, _)
SecondPass(ops, k, cur, cew, reg) ==
    IF k > Len(ops) THEN ops
    ELSE LET op == ops[k] IN
         IF IsLoadCached(op.mlir_op)
         THEN SecondPass(ops, k + 1, <<op.index>>, cew, reg)
         ELSE IF op.const_eval_graph # None
         THEN LET key == <<op.const_eval_graph, cur>>
                  w == IF key \in DOMAIN cew THEN cew[key] ELSE <<>>
              IN SecondPass([ops EXCEPT ![k].weights = w, ![k].has_weights = TRUE],
                            k + 1, cur, cew, reg)
         ELSE IF ~op.has_weights
         THEN SecondPass([ops EXCEPT
                             ![k].weights = MatchShapesOnce(reg, op.input_shapes, <<>>),
                             ![k].has_weights = TRUE],
                         k + 1, cur, cew, reg)
         ELSE SecondPass(ops, k + 1, cur, cew, reg)

\* lines 351-357: merge one derived weight list into an operation's weights
RECURSIVE MergeDerived(_, _)
MergeDerived(acc, dws) ==
    IF dws = <<>> THEN acc
    ELSE IF ~HasIndex(acc.weights, Head(dws).registry_index)
    THEN MergeDerived([weights |-> Append(acc.weights, Head(dws)), changed |-> TRUE],
                      Tail(dws))
    ELSE MergeDerived(acc, Tail(dws))

\* lines 348-357
RECURSIVE MergeInputs(_, _, _, _)
MergeInputs(acc, inputs, scope, derived) ==
    IF inputs = <<>> THEN acc
    ELSE LET key == <<scope[1], scope[2], Head(inputs)>> IN
         IF key \in DOMAIN derived
         THEN MergeInputs(MergeDerived(acc, derived[key]), Tail(inputs), scope, derived)
         ELSE MergeInputs(acc, Tail(inputs), scope, derived)

\* lines 331-364: one iteration of "while changed"
RECURSIVE ThirdPassSweep(_, _, _)
ThirdPassSweep(st, k, cur) ==
    IF k > Len(st.ops) THEN st
    ELSE LET op == st.ops[k] IN
         IF IsLoadCached(op.mlir_op)
         THEN ThirdPassSweep(st, k + 1, <<op.index>>)
         ELSE IF op.const_eval_graph = None
         THEN ThirdPassSweep(st, k + 1, cur)
         ELSE LET scope == <<op.const_eval_graph, cur>>
                  merged == MergeInputs([weights |-> op.weights, changed |-> st.changed],
                                        op.inputs, scope, st.derived)
                  key == <<scope[1], scope[2], op.result>>
                  register == /\ merged.weights # <<>>
                              /\ op.result # None
                              /\ key \notin DOMAIN st.derived
              IN ThirdPassSweep(
                     [ops |-> [st.ops EXCEPT ![k].weights = merged.weights],
                      derived |-> IF register
                                  THEN [d \in DOMAIN st.derived \cup {key} |->
                                           IF d = key THEN merged.weights
                                           ELSE st.derived[d]]
                                  ELSE st.derived,
                      changed |-> merged.changed \/ register],
                     k + 1, cur)

\* variant: the marking loop of lines 367-369 is left out
MarkedWeightOps_Unmarked(ops) == ops

\* lines 367-369
MarkedWeightOps(ops) ==
    [k \in DOMAIN ops |->
        IF ops[k].weights # <<>> /\ ~ops[k].is_weight_op
        THEN [ops[k] EXCEPT !.is_weight_op = TRUE]
        ELSE ops[k]]

scanVars == <<i, op_index, skipped_ops, deallocate_count, get_device_count,
              const_eval_stack, const_eval_cache_misses, const_eval_ops_count,
              live_tensors, memory_stats>>

\* lines 238-282: the registry is read and load_cached operations get weights
PassOne ==
    /\ pc = "pass1"
    /\ operations' = FirstPassOps(operations, registry)
    /\ const_eval_weights' = FirstPassWeights(operations, registry)
    /\ pc' = "pass2"
    /\ UNCHANGED <<inputVars, scanVars, derived_weights, changed, fileVars,
                   memStatsVars, toolVars, runnerVars>>

\* lines 286-328
PassTwo ==
    /\ pc = "pass2"
    /\ operations' = SecondPass(operations, 1, <<>>, const_eval_weights, registry)
    /\ derived_weights' = <<>>
    /\ changed' = TRUE
    /\ pc' = "pass3"
    /\ UNCHANGED <<inputVars, scanVars, const_eval_weights, fileVars, memStatsVars, toolVars, runnerVars>>

\* variant: the loop is left after its first test, no pass is made
PassThree_NoSweep ==
    /\ pc = "pass3" /\ changed
    /\ changed' = FALSE
    /\ UNCHANGED <<pc, inputVars, scanVars, operations, const_eval_weights,
                   derived_weights, fileVars, memStatsVars, toolVars, runnerVars>>

\* lines 329-364: one iteration of the fixed-point loop
PassThree ==
    /\ pc = "pass3" /\ changed
    /\ LET st == ThirdPassSweep([ops |-> operations, derived |-> derived_weights,
                                 changed |-> FALSE], 1, <<>>)
       IN /\ operations' = st.ops
          /\ derived_weights' = st.derived
          /\ changed' = st.changed
    /\ UNCHANGED <<pc, inputVars, scanVars, const_eval_weights, fileVars,
                   memStatsVars, toolVars, runnerVars>>

\* lines 329, 367-369: the loop ends, operations with weights are marked
MarkWeightOps ==
    /\ pc = "pass3" /\ ~changed
    /\ operations' = MarkedWeightOps(operations)
    /\ pc' = "write"
    /\ UNCHANGED <<inputVars, scanVars, passVars, fileVars, memStatsVars, toolVars, runnerVars>>

----------------------------------------------------------------------------
(* parser.py: the outputs (lines 371-404) and validate_outputs *)

\* lines 372-382
MemoryConfig(mem) ==
    IF mem = <<>> THEN <<>>
    ELSE [t \in DOMAIN At(mem, 0).memory |-> At(mem, 0).memory[t].numBanks]

\* A JSON document read by validate_outputs: a list (items) or a dict (its
\* keys, and what it holds under "operations")
JsonList(items) == [is_dict |-> FALSE, keys |-> {}, items |-> items]
JsonDict(keys, ops) == [is_dict |-> TRUE, keys |-> keys, items |-> ops]

\* lines 386-392
MemOutputData(mem) == JsonDict({"metadata", "operations"}, mem)

WriteOutputs ==
    /\ pc = "write"
    /\ mem_file' = MemOutputData(memory_stats)
    /\ ops_file' = operations
    /\ pc' = "validate"
    /\ UNCHANGED <<inputVars, scanVars, operations, passVars, valid, memStatsVars, toolVars, runnerVars>>

\* lines 474-477
HasOperations(mem_json) == mem_json.is_dict /\ "operations" \in mem_json.keys

MemDataLen(mem_json) ==
    IF HasOperations(mem_json) \/ ~mem_json.is_dict
    THEN Len(mem_json.items) ELSE Cardinality(mem_json.keys)

\* lines 487-496: the loop, left at the first mismatch; mem_data[i] of a dict
\* that has no "operations" raises, which line 510 turns into False
RECURSIVE AlignedFrom(_, _, _)
AlignedFrom(mem_json, ops_data, k) ==
    IF k >= MemDataLen(mem_json) THEN TRUE
    ELSE IF mem_json.is_dict /\ ~HasOperations(mem_json) THEN FALSE
    ELSE IF At(mem_json.items, k).index # At(ops_data, k).index THEN FALSE
    ELSE IF At(mem_json.items, k).loc # At(ops_data, k).loc THEN FALSE
    ELSE AlignedFrom(mem_json, ops_data, k + 1)

\* variant: only the lengths are compared
ValidateOutputs_LengthOnly(mem_json, ops_data) ==
    MemDataLen(mem_json) = Len(ops_data)

ValidateOutputs(mem_json, ops_data) ==
    IF MemDataLen(mem_json) # Len(ops_data) THEN FALSE
    ELSE AlignedFrom(mem_json, ops_data, 0)

\* run_profiled.py and interactive_cli.py validate what parse_log_file wrote
Validate ==
    /\ pc = "validate"
    /\ valid' = ValidateOutputs(mem_file, ops_file)
    /\ pc' = "done"
    /\ UNCHANGED <<inputVars, scanVars, operations, passVars, mem_file, ops_file,
                   memStatsVars, toolVars, runnerVars>>

----------------------------------------------------------------------------
(* The logs and registries parse_log_file is run on *)

\* %1 = ttcore.load_cached(@main_const_eval_0, [%arg0]) ... loc(unknown)
LoadOp == Op("%1", "ttcore.load_cached", <<"@main_const_eval_0", "%arg0">>,
             <<"4x4">>, Layout("dram", 64, 64), "@main_const_eval_0")
\* %1 = "ttnn.add"(%arg0) ... loc("add.1")
AddOp == Op("%1", "ttnn.add", <<"%arg0">>, <<"4x4">>,
            Layout("dram", 48, 64), "add.1")
\* %2 = "ttnn.multiply"(%1) ... loc("multiply.2")
MulOp == Op("%2", "ttnn.multiply", <<"%1">>, <<"2x2">>,
            Layout("l1", 16, 32), "multiply.2")
\* %1 = "ttnn.from_device"(%1) ... loc("from_device.3")
HostOp == Op("%1", "ttnn.from_device", <<"%1">>, <<"4x4">>,
             Layout("system_memory", 64, 64), "from_device.3")
\* "ttnn.deallocate"(%1) ... loc("add.1")
DeallocOp == Op(None, "ttnn.deallocate", <<"%1">>, <<"4x4">>, NoLayout, "add.1")
\* %0 = "ttnn.get_device"() ...
GetDeviceOp == Op("%0", "ttnn.get_device", <<>>, <<>>, NoLayout, None)

StatsBlock(name) == <<MemHeader(name), MemLine("DRAM", View(12, 10))>>

Items ==
    { <<ExecLine(LoadOp)>> \o StatsBlock("LoadCachedOp") \o <<StartLine(CE0)>>,
      <<FinishLine(CE0)>>,
      <<StartLine(CE1)>>,
      <<StartLine("main")>>,
      <<CacheMissLine(CE0)>>,
      <<ExecLine(AddOp)>> \o StatsBlock("AddOp"),
      <<ExecLine(MulOp)>> \o StatsBlock("MultiplyOp"),
      <<ExecLine(HostOp)>> \o StatsBlock("FromDeviceOp"),
      <<ExecLine(AddOp)>>,
      <<ExecLine(DeallocOp)>>,
      <<ExecLine(GetDeviceOp)>>,
      <<BadExecLine>> }

Logs == {Flatten(items) : items \in SeqsUpTo(Items, MaxItems)}

Entry(index, name, type, shape) ==
    [index |-> index, name |-> name, type |-> type, shape |-> shape]

\* func.func @main(%arg0: tensor<4x4xf32> {parameter "w0"},
\*                 %arg1: tensor<2x2xf32> {input "x"})
Registry == <<Entry(0, "w0", "parameter", "4x4"), Entry(1, "x", "input", "2x2")>>

----------------------------------------------------------------------------
(* Specifications *)

\* parse_log_file's locals as lines 88-114 set them, nothing written yet
ScanStart ==
    /\ i = 0 /\ op_index = 0 /\ skipped_ops = 0
    /\ deallocate_count = 0 /\ get_device_count = 0
    /\ const_eval_stack = <<>> /\ const_eval_cache_misses = {}
    /\ const_eval_ops_count = <<>> /\ live_tensors = <<>>
    /\ operations = <<>> /\ memory_stats = <<>>
    /\ const_eval_weights = <<>> /\ derived_weights = <<>> /\ changed = FALSE

ParserStart ==
    /\ ScanStart
    /\ mem_file = JsonList(<<>>) /\ ops_file = <<>> /\ valid = FALSE

MemStatsIdle == start_idx = 0 /\ mem_info = NoMemInfo

\* no tree handed to run_hierarchical_op_by_op
RunnerIdle ==
    /\ n_nodes = 0 /\ parent = <<>> /\ class_name = <<>> /\ module_id = <<>>
    /\ root_only = FALSE
    /\ status = <<>> /\ failed_ops = <<>> /\ exported = {} /\ pending = <<>>
    /\ export_calls = <<>> /\ test_results = <<>>

\* parse_op_by_op_log not called: no log, current_block None
NoBlock ==
    [present |-> FALSE, success |-> TRUE, last_ttnn_op |-> None,
     error_message |-> None, error_lines |-> <<>>, finished |-> FALSE]

LogIdle ==
    /\ log_lines = <<>> /\ log_pos = 0 /\ blocks = <<>>
    /\ current_block = NoBlock /\ sub_depth = 0 /\ collecting_error = FALSE

\* a module_path is the sequence of its dot-separated parts; None, for a
\* parent or for the root returned, is the sequence of no parts
NoPath == <<>>

TreeBuildIdle == modules = <<>> /\ tree_root = NoPath /\ tree_children = <<>>

ExtractIdle == named_modules = <<>> /\ unique_modules = <<>> /\ total_modules = 0

CliIdle == stages = <<>> /\ failures = {} /\ exit_code = None

\* extract_last_run not called
TrimIdle == log_file = <<>> /\ trim_calls = <<>>

\* find_peak_memory's (-1, 0.0, {}); megabytes are counted in whole units
NoPeak == [peak_idx |-> -1, peak_val |-> 0, record |-> <<>>]

PeakIdle == mem_data = <<>> /\ memory_type = "DRAM" /\ peak = NoPeak

\* parse_tensor_layout_info not called
NoTypeStr ==
    [shape |-> <<>>, dtype |-> None, buffer_type |-> None,
     memref |-> [matched |-> FALSE, grid_parses |-> FALSE, grid |-> <<>>,
                 tile_h |-> 0, tile_w |-> 0]]

\* the call returned None
NoLayoutInfo ==
    [returned |-> FALSE, raised |-> FALSE, logical_shape |-> <<>>,
     unpadded_bytes |-> 0, is_tiled |-> FALSE, padded_shape |-> <<>>,
     padded_bytes |-> 0, buffer_type |-> None,
     overhead_pct |-> [num |-> 0, den |-> 1]]

LayoutIdle == type_str = NoTypeStr /\ layout_info = NoLayoutInfo

\* generate_summary not called: nothing written
NoSummary == [written |-> FALSE, passed |-> FALSE, n_failed |-> 0,
              all_passed_line |-> FALSE, rows |-> 0]

SummaryIdle ==
    report_modules = <<>> /\ unique_ops = <<>> /\ summary_md = NoSummary

\* the visualizer's _build_tree not called
NoVizTree == [root |-> NoPath, children |-> <<>>]

VizIdle == viz_modules = <<>> /\ by_path = <<>> /\ viz_tree = NoVizTree

AnalysisIdle == TrimIdle /\ PeakIdle /\ LayoutIdle /\ SummaryIdle /\ VizIdle

ToolsIdle == LogIdle /\ TreeBuildIdle /\ ExtractIdle /\ CliIdle /\ AnalysisIdle

\* parse_log_file on a log, then validate_outputs on what it wrote
Init ==
    /\ pc = "scan"
    /\ lines \in Logs
    /\ \E run \in {<<TRUE, Registry>>, <<TRUE, <<>>>>, <<FALSE, <<>>>>} :
          registry_output = run[1] /\ registry = run[2]
    /\ ParserStart
    /\ MemStatsIdle
    /\ RunnerIdle
    /\ ToolsIdle

Next ==
    \/ ScanPlain
    \/ ScanParseFail
    \/ ScanDeallocate
    \/ ScanGetDevice
    \/ ScanEmit
    \/ ScanNoStats
    \/ ScanEnd
    \/ PassOne
    \/ PassTwo
    \/ PassThree
    \/ MarkWeightOps
    \/ WriteOutputs
    \/ Validate

Spec == Init /\ [][Next]_vars

----------------------------------------------------------------------------
(* parse_memory_stats on its own *)

StatLines ==
    { MemHeader("Foo"),
      MemLine("DRAM", View(12, 10)),
      MemLine("DRAM", NoView),
      MemLine("L1", View(64, 1)),
      MemLine("L1 SMALL", View(64, 0)),
      MemLine("L1_SMALL", View(64, 0)),
      MemLine("TRACE", View(12, 0)),
      OtherLine }

InitMemStats ==
    /\ pc = "stats"
    /\ lines \in SeqsUpTo(StatLines, MaxStatLines)
    /\ start_idx \in {0, 1}
    /\ mem_info = NoMemInfo
    /\ registry_output = FALSE /\ registry = <<>>
    /\ ParserStart
    /\ RunnerIdle
    /\ ToolsIdle

CallParseMemoryStats ==
    /\ pc = "stats"
    /\ mem_info' = ParseMemoryStats(lines, start_idx)
    /\ pc' = "stats_done"
    /\ UNCHANGED <<parserVars, start_idx, runnerVars, toolVars>>

NextMemStats == CallParseMemoryStats

SpecMemStats == InitMemStats /\ [][NextMemStats]_vars

----------------------------------------------------------------------------
(* validate_outputs on its own, on any pair of files holding records with an
   index and a loc *)

MaxRecords == 2        \* longest array in a file handed to validate_outputs

FileRecords == [index : 0..1, loc : {"add.1", None}]

FileArrays == SeqsUpTo(FileRecords, MaxRecords)

\* the memory file: a bare list, {"metadata", "operations"}, or a dict that
\* has no "operations"
MemJsons ==
    {JsonList(a) : a \in FileArrays}
        \cup {MemOutputData(a) : a \in FileArrays}
        \cup {JsonDict({"metadata"}, <<>>)}

InitValidate ==
    /\ pc = "validate"
    /\ mem_file \in MemJsons
    /\ ops_file \in FileArrays
    /\ valid = FALSE
    /\ lines = <<>> /\ registry_output = FALSE /\ registry = <<>>
    /\ ScanStart
    /\ MemStatsIdle
    /\ RunnerIdle
    /\ ToolsIdle

NextValidate == Validate

SpecValidate == InitValidate /\ [][NextValidate]_vars

----------------------------------------------------------------------------
(* ttchop/op_by_op_runner.py: run_hierarchical_op_by_op on a module tree.
   Nodes are numbered so that a parent comes before its children and a
   node's children list is in ascending order; node 1 is the root.
   op_by_op_report_path, which nothing in the run reads, is left out. *)

MaxNodes == 3          \* most nodes a tree has

CONTAINER_TYPES == {"Sequential", "ModuleList", "ModuleDict"}

ClassNames == {"Sequential", "Linear"}

ModuleIds == {"mod_0", "mod_1"}

Nodes == 1..n_nodes

ParentMaps(n) ==
    {p \in [1..n -> 0..n] : \A k \in 1..n : IF k = 1 THEN p[k] = 0
                                              ELSE p[k] \in 1..k - 1}

RECURSIVE Ascending(_)
Ascending(S) ==
    IF S = {} THEN <<>>
    ELSE LET m == CHOOSE m \in S : \A x \in S : m <= x
         IN <<m>> \o Ascending(S \ {m})

\* node.children
Children(n) == Ascending({k \in Nodes : parent[k] = n})

RECURSIVE IsAncestor(_, _)
IsAncestor(a, k) ==
    /\ parent[k] # 0
    /\ (parent[k] = a \/ IsAncestor(a, parent[k]))

Descendants(n) == {k \in Nodes : IsAncestor(n, k)}

IsContainer(n) == class_name[n] \in CONTAINER_TYPES

\* variant: a non-zero exit code with nothing recovered from the report
\* returns the empty list
RunOpByOp_NoSubstitute(irs_present, outcome, returncode, report) ==
    IF ~irs_present
    THEN [success |-> TRUE, failed_ops |-> <<>>, skipped |-> TRUE]
    ELSE IF outcome = "timeout"
    THEN [success |-> FALSE, failed_ops |-> <<"TIMEOUT">>, skipped |-> FALSE]
    ELSE IF outcome = "error"
    THEN [success |-> FALSE, failed_ops |-> <<"ERROR">>, skipped |-> FALSE]
    ELSE [success |-> returncode = 0, failed_ops |-> report, skipped |-> FALSE]

\* _run_op_by_op: what it returns, from whether irs/ holds ttir_*.mlir files,
\* how the pytest subprocess ended, its exit code, and the failed operators
\* _parse_report finds in the report ([] when there is no report)
RunOpByOp(irs_present, outcome, returncode, report) ==
    IF ~irs_present
    THEN [success |-> TRUE, failed_ops |-> <<>>, skipped |-> TRUE]
    ELSE IF outcome = "timeout"
    THEN [success |-> FALSE, failed_ops |-> <<"TIMEOUT">>, skipped |-> FALSE]
    ELSE IF outcome = "error"
    THEN [success |-> FALSE, failed_ops |-> <<"ERROR">>, skipped |-> FALSE]
    ELSE [success |-> returncode = 0,
          failed_ops |-> IF returncode # 0 /\ report = <<>>
                         THEN <<"PYTEST_FAILED">> ELSE report,
          skipped |-> FALSE]

RunResults ==
    {RunOpByOp(irs, outcome, rc, report) :
        irs \in BOOLEAN, outcome \in {"timeout", "error", "exit"},
        rc \in {0, 1}, report \in {<<>>, <<"ttir.matmul">>}}

\* variant: the marking stops at the node's children
MarkSubtreeSuccess_ChildrenOnly(st, n) ==
    [k \in DOMAIN st |->
        IF k = n THEN (IF st[n] = None THEN "success" ELSE st[n])
        ELSE IF parent[k] = n THEN "inherited_success"
        ELSE st[k]]

\* _mark_subtree_success(node)
MarkSubtreeSuccess(st, n) ==
    [k \in DOMAIN st |->
        IF k = n THEN (IF st[n] = None THEN "success" ELSE st[n])
        ELSE IF IsAncestor(n, k) THEN "inherited_success"
        ELSE st[k]]

\* variant: only the node itself is marked
MarkSubtreeSkipped_NodeOnly(st, n) ==
    [k \in DOMAIN st |-> IF k = n THEN "skipped" ELSE st[k]]

\* _mark_subtree_skipped(node)
MarkSubtreeSkipped(st, n) ==
    [k \in DOMAIN st |->
        IF k = n \/ IsAncestor(n, k) THEN "skipped" ELSE st[k]]

\* node.status = s, then "for child in node.children: _mark_subtree_skipped(child)"
SetAndSkipChildren(st, n, s) ==
    [k \in DOMAIN st |->
        IF k = n THEN s ELSE IF IsAncestor(n, k) THEN "skipped" ELSE st[k]]

\* "for child in node.children: analyze(child, is_root_call=False)"
ChildCalls(n) ==
    [k \in DOMAIN Children(n) |->
        [node |-> Children(n)[k], is_root_call |-> FALSE]]

\* variant: a child's ir_export_failed does not fail the container
UpdateOne_IgnoresExportFailure(st, n) ==
    IF ~IsContainer(n) \/ Children(n) = <<>> THEN st
    ELSE IF st[n] = "inherited_success" THEN st
    ELSE LET statuses == {st[c] : c \in Range(Children(n))} \ {None} IN
         IF statuses = {} THEN st
         ELSE IF "failed" \in statuses
         THEN [st EXCEPT ![n] = "failed"]
         ELSE IF \E x \in statuses : x \in {"success", "inherited_success"}
         THEN [st EXCEPT ![n] = "inherited_success"]
         ELSE [st EXCEPT ![n] = "skipped"]

\* _update_container_status: what it does at one node, its children done
UpdateOne(st, n) ==
    IF ~IsContainer(n) \/ Children(n) = <<>> THEN st
    ELSE IF st[n] = "inherited_success" THEN st
    ELSE LET statuses == {st[c] : c \in Range(Children(n))} \ {None} IN
         IF statuses = {} THEN st
         ELSE IF "failed" \in statuses \/ "ir_export_failed" \in statuses
         THEN [st EXCEPT ![n] = "failed"]
         ELSE IF \A x \in statuses : x \in {"success", "inherited_success"}
         THEN [st EXCEPT ![n] = "inherited_success"]
         ELSE IF \E x \in statuses : x \in {"success", "inherited_success"}
         THEN [st EXCEPT ![n] = "inherited_success"]
         ELSE [st EXCEPT ![n] = "skipped"]

\* the order in which _update_container_status reaches its line 209
RECURSIVE PostOrder(_)
PostOrder(n) ==
    Flatten([k \in DOMAIN Children(n) |-> PostOrder(Children(n)[k])]) \o <<n>>

RECURSIVE UpdateContainerStatus(_, _)
UpdateContainerStatus(st, order) ==
    IF order = <<>> THEN st
    ELSE UpdateContainerStatus(UpdateOne(st, Head(order)), Tail(order))

----------------------------------------------------------------------------
(* The run *)

\* _ensure_system_desc, then "if root: analyze(root, is_root_call=True)"
EnsureSystemDesc ==
    /\ pc = "start"
    /\ \E generated \in BOOLEAN :
          IF ~generated THEN pc' = "exit" /\ UNCHANGED pending
          ELSE IF n_nodes = 0 THEN pc' = "returned" /\ UNCHANGED pending
          ELSE /\ pc' = "analyze"
               /\ pending' = <<[node |-> 1, is_root_call |-> TRUE]>>
    /\ UNCHANGED <<parserVars, memStatsVars, toolVars, treeVars, status, failed_ops,
                   exported, export_calls, test_results>>

Analyzing == pc = "analyze" /\ pending # <<>>

node == Head(pending).node

\* variant: root_only stops the recursion only below non-root containers
SkippedByRootOnly_BelowContainers ==
    /\ root_only /\ ~Head(pending).is_root_call
    /\ IsContainer(parent[Head(pending).node]) /\ parent[Head(pending).node] # 1

SkippedByRootOnly == root_only /\ ~Head(pending).is_root_call

\* lines 238-241
AnalyzeRootOnlySkip ==
    /\ Analyzing /\ SkippedByRootOnly
    /\ status' = MarkSubtreeSkipped(status, node)
    /\ pending' = Tail(pending)
    /\ UNCHANGED <<pc, parserVars, memStatsVars, toolVars, treeVars, failed_ops, exported,
                   export_calls, test_results>>

\* lines 245-250
AnalyzeContainer ==
    /\ Analyzing /\ ~SkippedByRootOnly
    /\ IsContainer(node)
    /\ status' = [status EXCEPT ![node] = "skipped"]
    /\ pending' = ChildCalls(node) \o Tail(pending)
    /\ UNCHANGED <<pc, parserVars, memStatsVars, toolVars, treeVars, failed_ops, exported,
                   export_calls, test_results>>

\* variant: a failed export ends the node's subtree, as root_only does
AnalyzeExportFailed_SkipsChildren ==
    /\ Analyzing /\ ~SkippedByRootOnly
    /\ ~IsContainer(node)
    /\ module_id[node] \notin exported
    /\ export_calls' = [export_calls EXCEPT ![node] = @ + 1]
    /\ status' = SetAndSkipChildren(status, node, "ir_export_failed")
    /\ pending' = Tail(pending)
    /\ UNCHANGED <<pc, parserVars, memStatsVars, toolVars, treeVars, failed_ops, exported,
                   test_results>>

\* lines 254-263: _export_ir returns False
AnalyzeExportFailed ==
    /\ Analyzing /\ ~SkippedByRootOnly
    /\ ~IsContainer(node)
    /\ module_id[node] \notin exported
    /\ export_calls' = [export_calls EXCEPT ![node] = @ + 1]
    /\ IF root_only
       THEN /\ status' = SetAndSkipChildren(status, node, "ir_export_failed")
            /\ pending' = Tail(pending)
       ELSE /\ status' = [status EXCEPT ![node] = "ir_export_failed"]
            /\ pending' = ChildCalls(node) \o Tail(pending)
    /\ UNCHANGED <<pc, parserVars, memStatsVars, toolVars, treeVars, failed_ops, exported,
                   test_results>>

\* lines 254-264 when the node gets past them: the id was exported before, or
\* _export_ir is called and returns True
PastExport ==
    /\ Analyzing /\ ~SkippedByRootOnly
    /\ ~IsContainer(node)
    /\ exported' = exported \cup {module_id[node]}
    /\ export_calls' = IF module_id[node] \in exported THEN export_calls
                       ELSE [export_calls EXCEPT ![node] = @ + 1]

\* lines 266-270: module_irs_base / module_id is not there
AnalyzeNoIrsDir ==
    /\ PastExport
    /\ status' = [status EXCEPT ![node] = "skipped"]
    /\ pending' = ChildCalls(node) \o Tail(pending)
    /\ UNCHANGED <<pc, parserVars, memStatsVars, toolVars, treeVars, failed_ops, test_results>>

\* lines 272-279
AnalyzeTestSkipped ==
    /\ PastExport
    /\ \E result \in RunResults :
          /\ test_results' = [test_results EXCEPT ![node] = Append(@, result)]
          /\ result.skipped
          /\ status' = [status EXCEPT ![node] = "skipped"]
          /\ pending' = ChildCalls(node) \o Tail(pending)
    /\ UNCHANGED <<pc, parserVars, memStatsVars, toolVars, treeVars, failed_ops>>

\* lines 281-289
AnalyzeTestSuccess ==
    /\ PastExport
    /\ \E result \in RunResults :
          /\ test_results' = [test_results EXCEPT ![node] = Append(@, result)]
          /\ ~result.skipped /\ result.success
          /\ status' = IF root_only
                       THEN SetAndSkipChildren(status, node, "success")
                       ELSE MarkSubtreeSuccess(status, node)
          /\ pending' = Tail(pending)
    /\ UNCHANGED <<pc, parserVars, memStatsVars, toolVars, treeVars, failed_ops>>

\* lines 290-300
AnalyzeTestFailed ==
    /\ PastExport
    /\ \E result \in RunResults :
          /\ test_results' = [test_results EXCEPT ![node] = Append(@, result)]
          /\ ~result.skipped /\ ~result.success
          /\ failed_ops' = [failed_ops EXCEPT ![node] = result.failed_ops]
          /\ IF root_only
             THEN /\ status' = SetAndSkipChildren(status, node, "failed")
                  /\ pending' = Tail(pending)
             ELSE /\ status' = [status EXCEPT ![node] = "failed"]
                  /\ pending' = ChildCalls(node) \o Tail(pending)
    /\ UNCHANGED <<pc, parserVars, memStatsVars, toolVars, treeVars>>

\* variant: the roll-up does not wait for analyze(root) to return
RollUp_DuringTraversal ==
    /\ pc = "analyze"
    /\ status' = UpdateContainerStatus(status, PostOrder(1))
    /\ pc' = "returned"
    /\ UNCHANGED <<parserVars, memStatsVars, toolVars, treeVars, failed_ops, exported,
                   pending, export_calls, test_results>>

\* line 304, once analyze(root) has returned
RollUp ==
    /\ pc = "analyze" /\ pending = <<>>
    /\ status' = UpdateContainerStatus(status, PostOrder(1))
    /\ pc' = "returned"
    /\ UNCHANGED <<parserVars, memStatsVars, toolVars, treeVars, failed_ops, exported,
                   pending, export_calls, test_results>>

InitRun ==
    /\ pc = "start"
    /\ n_nodes \in 0..MaxNodes
    /\ parent \in ParentMaps(n_nodes)
    /\ class_name \in [1..n_nodes -> ClassNames]
    /\ module_id \in [1..n_nodes -> ModuleIds]
    /\ root_only \in BOOLEAN
    /\ status = [k \in 1..n_nodes |-> None]
    /\ failed_ops = [k \in 1..n_nodes |-> <<>>]
    /\ exported = {} /\ pending = <<>>
    /\ export_calls = [k \in 1..n_nodes |-> 0]
    /\ test_results = [k \in 1..n_nodes |-> <<>>]
    /\ lines = <<>> /\ registry_output = FALSE /\ registry = <<>>
    /\ ParserStart
    /\ MemStatsIdle
    /\ ToolsIdle

NextRun ==
    \/ EnsureSystemDesc
    \/ AnalyzeRootOnlySkip
    \/ AnalyzeContainer
    \/ AnalyzeExportFailed
    \/ AnalyzeNoIrsDir
    \/ AnalyzeTestSkipped
    \/ AnalyzeTestSuccess
    \/ AnalyzeTestFailed
    \/ RollUp

SpecRun == InitRun /\ [][NextRun]_vars

----------------------------------------------------------------------------
(* _update_container_status on its own: the roll-up of any tree whose nodes
   carry statuses the traversal hands out.  analyze leaves a container
   skipped (line 247) unless an ancestor's success marks it
   inherited_success; any other node can end with any of the five. *)

MaxRollUpNodes == 4    \* most nodes of a tree rolled up on its own

TraversalStatuses ==
    {"failed", "ir_export_failed", "success", "inherited_success", "skipped"}

TraversedNodes ==
    [class_name : ClassNames \cap CONTAINER_TYPES,
     status : {"skipped", "inherited_success"}]
        \cup [class_name : ClassNames \ CONTAINER_TYPES, status : TraversalStatuses]

InitRollUp ==
    /\ pc = "analyze" /\ pending = <<>>
    /\ n_nodes \in 1..MaxRollUpNodes
    /\ parent \in ParentMaps(n_nodes)
    /\ \E traversed \in [1..n_nodes -> TraversedNodes] :
          /\ class_name = [k \in 1..n_nodes |-> traversed[k].class_name]
          /\ status = [k \in 1..n_nodes |-> traversed[k].status]
    /\ module_id = [k \in 1..n_nodes |-> "mod_0"]
    /\ root_only = FALSE
    /\ failed_ops = [k \in 1..n_nodes |-> <<>>]
    /\ exported = {}
    /\ export_calls = [k \in 1..n_nodes |-> 0]
    /\ test_results = [k \in 1..n_nodes |-> <<>>]
    /\ lines = <<>> /\ registry_output = FALSE /\ registry = <<>>
    /\ ParserStart
    /\ MemStatsIdle
    /\ ToolsIdle

NextRollUp == RollUp

SpecRollUp == InitRollUp /\ [][NextRollUp]_vars

----------------------------------------------------------------------------
(* What the claims speak of, read off the log itself *)

ExecPositions(ls) == {p \in 0..Len(ls) - 1 : IsExecLine(At(ls, p))}

Parsed(ls, p) == IsExecLine(At(ls, p)) /\ At(ls, p).parses

DeallocatePositions(ls) ==
    {p \in ExecPositions(ls) : Parsed(ls, p) /\ IsDeallocate(At(ls, p).op.mlir_op)}

GetDevicePositions(ls) ==
    {p \in ExecPositions(ls) : Parsed(ls, p) /\ IsGetDevice(At(ls, p).op.mlir_op)}

\* operation lines with no operator call in them, and operations that no
\* memory-statistics block follows
SkippedPositions(ls) ==
    {p \in ExecPositions(ls) \ (DeallocatePositions(ls) \cup GetDevicePositions(ls)) :
        ~Parsed(ls, p) \/ ~ParseMemoryStats(ls, p + 1).found}

EmitPositions(ls) ==
    ExecPositions(ls) \ (DeallocatePositions(ls) \cup GetDevicePositions(ls)
                         \cup SkippedPositions(ls))

RECURSIVE SumOf(_, _)
SumOf(f, S) ==
    IF S = {} THEN 0
    ELSE LET x == CHOOSE x \in S : TRUE IN f[x] + SumOf(f, S \ {x})

----------------------------------------------------------------------------
(* C1: the operations array and the memory array parse_log_file builds and
   writes have the same length, position k of both carries index k and the
   same loc, and validate_outputs accepts the written pair. *)

AlignedArrays(mem, ops) ==
    /\ Len(mem) = Len(ops)
    /\ \A k \in 0..Len(ops) - 1 :
          /\ At(ops, k).index = k
          /\ At(mem, k).index = k
          /\ At(ops, k).loc = At(mem, k).loc

C1_Aligned ==
    /\ pc \in {"scan", "pass1", "pass2", "pass3", "write", "validate", "done"}
          => AlignedArrays(memory_stats, operations)
    /\ pc \in {"validate", "done"}
          => /\ HasOperations(mem_file)
             /\ AlignedArrays(mem_file.items, ops_file)
    /\ pc = "done" => valid

C1_Witness ==
    /\ pc = "done" /\ valid
    /\ Len(ops_file) >= 2
    /\ At(ops_file, 0).loc # At(ops_file, 1).loc

----------------------------------------------------------------------------
(* C2 as claimed: with N operation lines, d of them deallocate and g of them
   get_device, exactly N - d - g record pairs are written. *)

C2_Original ==
    pc = "done" =>
        LET n == Cardinality(ExecPositions(lines))
                 - Cardinality(DeallocatePositions(lines))
                 - Cardinality(GetDevicePositions(lines))
        IN Len(ops_file) = n /\ Len(mem_file.items) = n

(* C2 amended: exactly N - d - g - s record pairs are written, s being the
   operation lines that do not parse or that no memory-statistics block
   follows; s is what skipped_ops counts. *)

C2_Amended ==
    pc = "done" =>
        LET n == Cardinality(ExecPositions(lines))
                 - Cardinality(DeallocatePositions(lines))
                 - Cardinality(GetDevicePositions(lines))
                 - Cardinality(SkippedPositions(lines))
        IN /\ Len(ops_file) = n /\ Len(mem_file.items) = n
           /\ skipped_ops = Cardinality(SkippedPositions(lines))
           /\ deallocate_count = Cardinality(DeallocatePositions(lines))
           /\ get_device_count = Cardinality(GetDevicePositions(lines))

C2_Witness ==
    /\ pc = "done"
    /\ Len(ops_file) = 1
    /\ Cardinality(SkippedPositions(lines)) = 1
    /\ Cardinality(DeallocatePositions(lines)) = 1

----------------------------------------------------------------------------
(* C3: when a registry output is requested, every Operation Record written
   with a non-empty weights list has is_weight_op true. *)

C3_WeightsImplyWeightOp ==
    (pc \in {"validate", "done"} /\ registry_output) =>
        \A k \in DOMAIN ops_file :
            ops_file[k].weights # <<>> => ops_file[k].is_weight_op

C3_Witness ==
    /\ pc = "done" /\ registry_output
    /\ \E k \in DOMAIN ops_file :
          /\ ops_file[k].weights # <<>>
          /\ ops_file[k].const_eval_graph = None
          /\ ~IsLoadCached(ops_file[k].mlir_op)

----------------------------------------------------------------------------
(* C4: a load_cached record L names function f and loads weight X; A and B
   are records of f's invocation by L (their const_eval_graph is f and L is
   the last load_cached before them), A consumes X and produces Y, B
   consumes Y.  Then A and B both end with X among their weights and with
   is_weight_op true. *)

LastLoadBefore(ops, k) ==
    LET loads == {j \in 1..k : IsLoadCached(ops[j].mlir_op)}
    IN IF loads = {} THEN 0 ELSE SetMax(loads)

InInvocation(ops, l, k) ==
    /\ ~IsLoadCached(ops[k].mlir_op)
    /\ ops[k].const_eval_graph = ConstEvalName(ops[l])
    /\ LastLoadBefore(ops, k) = l

TwoHops(ops, l, x, a, b) ==
    /\ IsLoadCached(ops[l].mlir_op)
    /\ ConstEvalName(ops[l]) # None
    /\ IsWeightEntry(registry[x])
    /\ registry[x] = WeightLookupByShape(registry, registry[x].shape)
    /\ registry[x].shape \in Range(ops[l].input_shapes)
    /\ InInvocation(ops, l, a) /\ InInvocation(ops, l, b)
    /\ a # b
    /\ registry[x].shape \in Range(ops[a].input_shapes)
    /\ ops[a].result # None
    /\ ops[a].result \in Range(ops[b].inputs)

C4_TwoHopPropagation ==
    (pc = "done" /\ registry_output) =>
        \A l, a, b \in DOMAIN ops_file : \A x \in DOMAIN registry :
            TwoHops(ops_file, l, x, a, b) =>
                /\ HasIndex(ops_file[a].weights, registry[x].index)
                /\ HasIndex(ops_file[b].weights, registry[x].index)
                /\ ops_file[a].is_weight_op /\ ops_file[b].is_weight_op

C4_Witness ==
    /\ pc = "done" /\ registry_output
    /\ \E l, a, b \in DOMAIN ops_file : \E x \in DOMAIN registry :
          /\ TwoHops(ops_file, l, x, a, b)
          /\ registry[x].shape \notin Range(ops_file[b].input_shapes)
          /\ HasIndex(ops_file[b].weights, registry[x].index)

----------------------------------------------------------------------------
(* C5: const_eval_stack is pushed on every "Starting execution of program"
   line whose name contains const_eval and popped only on a "Finished
   execution of program" line naming the function on top; a record pair
   emitted while the stack is non-empty carries const_eval_graph = the top
   of the stack and is_weight_op = true in its memory record, and one
   emitted while the stack is empty carries null and false. *)

Top(stack) == stack[Len(stack)]

StampedBy(stack, op_rec, mem_rec) ==
    IF stack # <<>>
    THEN /\ op_rec.const_eval_graph = Top(stack)
         /\ mem_rec.const_eval_graph = Top(stack)
         /\ op_rec.is_weight_op /\ mem_rec.is_weight_op
    ELSE /\ op_rec.const_eval_graph = None
         /\ mem_rec.const_eval_graph = None
         /\ ~op_rec.is_weight_op /\ ~mem_rec.is_weight_op

C5_Step ==
    (pc = "scan" /\ i < Len(lines)) =>
        LET line == At(lines, i) IN
        /\ (line.kind = "start" /\ ContainsConstEval(line.name))
              => const_eval_stack' = Append(const_eval_stack, line.name)
        /\ Len(const_eval_stack') > Len(const_eval_stack)
              => line.kind = "start" /\ ContainsConstEval(line.name)
        /\ Len(const_eval_stack') < Len(const_eval_stack)
              => /\ line.kind = "finish"
                 /\ line.name = Top(const_eval_stack)
                 /\ const_eval_stack' =
                        SubSeq(const_eval_stack, 1, Len(const_eval_stack) - 1)
        /\ Len(const_eval_stack') = Len(const_eval_stack)
              => const_eval_stack' = const_eval_stack
        /\ Len(operations') > Len(operations)
              => /\ Len(operations') = Len(operations) + 1
                 /\ Len(memory_stats') = Len(memory_stats) + 1
                 /\ StampedBy(const_eval_stack',
                              operations'[Len(operations')],
                              memory_stats'[Len(memory_stats')])

C5_StackStamps == [][C5_Step]_vars

C5_Witness ==
    /\ pc = "scan"
    /\ const_eval_stack = <<CE0>>
    /\ const_eval_ops_count # <<>>
    /\ \E j, k \in DOMAIN operations :
          /\ j < k
          /\ operations[j].const_eval_graph = None
          /\ ~memory_stats[j].is_weight_op
          /\ operations[k].const_eval_graph = CE0
          /\ memory_stats[k].is_weight_op

----------------------------------------------------------------------------
(* C6: a tensor is live from the line on which a record pair is emitted for
   the operation producing it with a dram or l1 result layout up to the next
   deallocate line naming it as operand.  Every emitted Memory Record's
   unpadded_memory counts and sums exactly the tensors live right after its
   own line, each with the layout of its latest production, and no record
   pair is emitted for a deallocate line. *)

ProducesAt(ls, emits, p, x) ==
    /\ p \in emits
    /\ At(ls, p).op.result = x
    /\ At(ls, p).op.output_layout_info.present
    /\ At(ls, p).op.output_layout_info.buffer_type \in {"dram", "l1"}

DeallocatesAt(ls, p, x) ==
    /\ Parsed(ls, p)
    /\ IsDeallocate(At(ls, p).op.mlir_op)
    /\ x \in Range(At(ls, p).op.inputs)

Results(ls) == {At(ls, p).op.result : p \in ExecPositions(ls)} \ {None}

\* the tensors live once the first n lines are processed, emits being the
\* lines a record pair is emitted for
LiveNames(ls, emits, n) ==
    {x \in Results(ls) :
        \E p \in 0..n - 1 :
            /\ ProducesAt(ls, emits, p, x)
            /\ \A q \in p + 1..n - 1 : ~DeallocatesAt(ls, q, x)}

LayoutOf(ls, emits, n, x) ==
    At(ls, SetMax({p \in 0..n - 1 : ProducesAt(ls, emits, p, x)})).op.output_layout_info

LiveAggregate(ls, emits, n, space) ==
    LET layouts == [x \in LiveNames(ls, emits, n) |-> LayoutOf(ls, emits, n, x)]
        here == {x \in DOMAIN layouts : Upper(layouts[x].buffer_type) = space}
    IN [unpadded_bytes |-> SumOf([x \in here |-> layouts[x].unpadded_bytes], here),
        padded_bytes |-> SumOf([x \in here |-> layouts[x].padded_bytes], here),
        num_tensors |-> Cardinality(here)]

\* the line the k-th record pair (k from 1) was emitted for
PosOf(emits, k) ==
    CHOOSE p \in emits : Cardinality({q \in emits : q < p}) = k - 1

RecordIsLiveAggregate(mem, emits, k) ==
    /\ ~IsDeallocate(mem[k].mlir_op)
    /\ \A space \in {"DRAM", "L1"} :
          mem[k].unpadded_memory[space] =
              LiveAggregate(lines, emits, PosOf(emits, k) + 1, space)

\* during the scan the newest record and live_tensors are compared after
\* each operation line, the only lines that change them; the written file is
\* compared whole
C6_UnpaddedMemoryIsLiveSet ==
    LET emits == EmitPositions(lines) IN
    /\ (pc = "scan" /\ i > 0 /\ IsExecLine(At(lines, i - 1)))
          => /\ DOMAIN live_tensors = LiveNames(lines, emits, i)
             /\ memory_stats # <<>>
                   => RecordIsLiveAggregate(memory_stats, emits, Len(memory_stats))
    /\ (pc = "scan" /\ i = 0) => live_tensors = <<>>
    /\ pc = "done"
          => /\ HasOperations(mem_file)
             /\ Len(mem_file.items) = Cardinality(emits)
             /\ \A k \in DOMAIN mem_file.items :
                   RecordIsLiveAggregate(mem_file.items, emits, k)

C6_Witness ==
    /\ pc = "done"
    /\ deallocate_count = 1
    /\ \E j, k \in DOMAIN mem_file.items :
          /\ j < k
          /\ mem_file.items[j].unpadded_memory["DRAM"].num_tensors = 1
          /\ mem_file.items[k].unpadded_memory["DRAM"].num_tensors = 0
          /\ mem_file.items[k].unpadded_memory["L1"].num_tensors = 1

----------------------------------------------------------------------------
(* C7: on a memory file that is a bare list or {"metadata", "operations"}
   and an operations file, both of records with index and loc,
   validate_outputs returns false exactly when the two arrays differ in
   length, or some position has different index values, or some position
   has different loc values. *)

C7_ValidateFalseIff ==
    (pc = "done" /\ (~mem_file.is_dict \/ HasOperations(mem_file))) =>
        LET mem == mem_file.items
            common == DOMAIN mem \cap DOMAIN ops_file
        IN (valid = FALSE) <=>
              \/ Len(mem) # Len(ops_file)
              \/ \E k \in common : mem[k].index # ops_file[k].index
              \/ \E k \in common : mem[k].loc # ops_file[k].loc

C7_Witness ==
    /\ pc = "done" /\ valid = FALSE
    /\ HasOperations(mem_file)
    /\ Len(mem_file.items) = 2 /\ Len(ops_file) = 2
    /\ \A k \in 1..2 : mem_file.items[k].index = ops_file[k].index
    /\ mem_file.items[1].loc = ops_file[1].loc
    /\ mem_file.items[2].loc # ops_file[2].loc

----------------------------------------------------------------------------
(* C8 as claimed: a header naming Foo followed by memory-state lines (each
   with a MemoryView that parses, in the order DRAM, L1, L1 SMALL, TRACE,
   any of them left out) gives op_type Foo and a memory dict holding exactly
   the spaces whose line is present. *)

SpaceOf(label) == IF label = "L1 SMALL" THEN "L1_SMALL" ELSE label

Rank(label) ==
    CHOOSE k \in 0..3 : At(memory_types, k) = SpaceOf(label)

HeaderFoo ==
    /\ pc = "stats_done"
    /\ start_idx < Len(lines)
    /\ At(lines, start_idx) = MemHeader("Foo")

\* what follows the header to the end of the lines
Following == SubSeq(lines, start_idx + 2, Len(lines))

FollowedByStateLines ==
    /\ Len(Following) \in 1..4
    /\ \A k \in DOMAIN Following :
          Following[k].kind = "mem_state" /\ Following[k].view.present
    /\ \A j, k \in DOMAIN Following :
          j < k => Rank(Following[j].label) < Rank(Following[k].label)

C8_Original ==
    (HeaderFoo /\ FollowedByStateLines) =>
        /\ mem_info.found
        /\ mem_info.op_type = "Foo"
        /\ DOMAIN mem_info.memory =
              {SpaceOf(Following[k].label) : k \in DOMAIN Following}

(* C8 amended: the memory dict holds exactly the spaces whose line stands at
   the space's own place after the header (DRAM first, L1 second, L1 SMALL
   or L1_SMALL third, TRACE fourth) and carries a MemoryView that parses,
   each with that line's statistics; op_type is Foo; nothing is returned
   when no line qualifies.  With a third line that is not an L1 SMALL line
   the keys are DRAM, L1, TRACE; with the TRACE line itself third they are
   DRAM, L1. *)

InPlace(k) ==
    /\ k \in DOMAIN Following
    /\ Following[k].kind = "mem_state"
    /\ Following[k].view.present
    /\ Rank(Following[k].label) = k - 1

C8_Amended ==
    HeaderFoo =>
        /\ mem_info.found <=> \E k \in 1..4 : InPlace(k)
        /\ mem_info.found =>
              /\ mem_info.op_type = "Foo"
              /\ DOMAIN mem_info.memory =
                    {SpaceOf(Following[k].label) : k \in {j \in 1..4 : InPlace(j)}}
              /\ \A k \in 1..4 :
                    InPlace(k) =>
                        mem_info.memory[SpaceOf(Following[k].label)] =
                            Following[k].view
        /\ (InPlace(1) /\ InPlace(2) /\ InPlace(4) /\ ~InPlace(3))
              => DOMAIN mem_info.memory = {"DRAM", "L1", "TRACE"}
        /\ (InPlace(1) /\ InPlace(2) /\ Len(Following) = 3
                /\ Following[3] = MemLine("TRACE", View(12, 0)))
              => DOMAIN mem_info.memory = {"DRAM", "L1"}

C8_Witness ==
    /\ HeaderFoo
    /\ Len(Following) = 4
    /\ Following[3] = OtherLine
    /\ mem_info.found
    /\ DOMAIN mem_info.memory = {"DRAM", "L1", "TRACE"}

----------------------------------------------------------------------------
(* C9: the roll-up leaves a container with at least one child failed if any
   child ends failed or ir_export_failed, otherwise inherited_success if any
   child ends success or inherited_success, otherwise skipped; a container
   that already holds inherited_success keeps it; a non-container's status
   is not changed by the roll-up. *)

RolledUp(ends) ==
    IF ends \cap {"failed", "ir_export_failed"} # {} THEN "failed"
    ELSE IF ends \cap {"success", "inherited_success"} # {} THEN "inherited_success"
    ELSE "skipped"

C9_Step ==
    (pc = "analyze" /\ pc' = "returned") =>
        \A n \in Nodes :
            IF IsContainer(n) /\ Children(n) # <<>>
            THEN IF status[n] = "inherited_success"
                 THEN status'[n] = "inherited_success"
                 ELSE status'[n] =
                          RolledUp({status'[c] : c \in Range(Children(n))})
            ELSE ~IsContainer(n) => status'[n] = status[n]

C9_RollUpRule == [][C9_Step]_vars

C9_Witness ==
    /\ pc = "returned"
    /\ n_nodes = 4 /\ \A k \in 2..4 : parent[k] = 1 /\ ~IsContainer(k)
    /\ IsContainer(1) /\ status[1] = "inherited_success"
    /\ status[2] = "success" /\ status[3] = "inherited_success"
    /\ status[4] = "skipped"

----------------------------------------------------------------------------
(* C10: with root_only false, once a non-container node's op-by-op test has
   succeeded the node has status success and every descendant of it has
   status inherited_success, from then to the end of the run, and no
   _export_ir and no _run_op_by_op call is made for any descendant. *)

TestSucceeded(n) ==
    /\ test_results[n] # <<>>
    /\ ~test_results[n][1].skipped
    /\ test_results[n][1].success

C10_SuccessCoversSubtree ==
    \A n \in Nodes :
        (~root_only /\ ~IsContainer(n) /\ TestSucceeded(n)) =>
            /\ status[n] = "success"
            /\ \A d \in Descendants(n) :
                  /\ status[d] = "inherited_success"
                  /\ export_calls[d] = 0
                  /\ test_results[d] = <<>>

C10_Witness ==
    /\ pc = "returned" /\ ~root_only
    /\ n_nodes = 3 /\ parent[2] = 1 /\ parent[3] = 2
    /\ TestSucceeded(1)
    /\ IsContainer(2) /\ ~IsContainer(3)
    /\ status[2] = "inherited_success" /\ status[3] = "inherited_success"

----------------------------------------------------------------------------
(* C11: during one run_hierarchical_op_by_op call _export_ir is invoked at
   most once for each module id, also when several nodes carry the same id
   and whatever the outcome of each export.  The code records an id in
   `exported` only after a successful export (line 264), so the statement
   fails when an export fails and a later node carries the same id. *)

ExportCallsFor(id) ==
    SumOf(export_calls, {n \in Nodes : module_id[n] = id})

----------------------------------------------------------------------------
(* C12: when _export_ir fails for a non-container node, the node's status
   becomes ir_export_failed and no op-by-op test is run for it; with
   root_only false every child of it is still analyzed on its own (exported
   unless its id was exported before, and given its own traversal status),
   and the run goes on to the roll-up with every node given a status. *)

\* _export_ir was called for n in this step and returned False
ExportFailedStep(n) ==
    /\ export_calls'[n] = export_calls[n] + 1
    /\ module_id[n] \notin exported'

C12_Step ==
    \A n \in Nodes :
        ExportFailedStep(n) =>
            /\ ~IsContainer(n)
            /\ status'[n] = "ir_export_failed"
            /\ test_results'[n] = <<>>
            /\ ~root_only => pending' = ChildCalls(n) \o Tail(pending)

\* analyze(c) ran for c itself: c was not covered by an ancestor's marking
AnalyzedOnItsOwn(c) ==
    IF IsContainer(c) THEN status[c] # None
    ELSE /\ status[c] \in {"ir_export_failed", "skipped", "success", "failed"}
         /\ export_calls[c] >= 1 \/ module_id[c] \in exported
         /\ status[c] \in {"success", "failed"} => test_results[c] # <<>>

C12_AfterRun ==
    pc = "returned" =>
        \A n \in Nodes :
            status[n] = "ir_export_failed" =>
                /\ test_results[n] = <<>>
                /\ \A k \in Nodes : status[k] # None
                /\ ~root_only =>
                      \A c \in Range(Children(n)) : AnalyzedOnItsOwn(c)

C12_ExportFailureDoesNotAbort == [][C12_Step]_vars /\ []C12_AfterRun

C12_Witness ==
    /\ pc = "returned" /\ ~root_only
    /\ n_nodes = 3 /\ parent[2] = 1 /\ parent[3] = 1
    /\ status[1] = "ir_export_failed" /\ status[2] = "ir_export_failed"
    /\ export_calls[3] = 1 /\ status[3] = "failed"

----------------------------------------------------------------------------
(* C13: with root_only set, _export_ir and _run_op_by_op are invoked for no
   node other than the root, and after the run every non-root node has
   status skipped, whatever the root's class and the outcome of the root's
   export and test. *)

C13_RootOnlyConfinesRun ==
    root_only =>
        \A n \in Nodes \ {1} :
            /\ export_calls[n] = 0
            /\ test_results[n] = <<>>
            /\ pc = "returned" => status[n] = "skipped"

C13_Witness ==
    /\ pc = "returned" /\ root_only
    /\ n_nodes = 3 /\ parent[2] = 1 /\ parent[3] = 2
    /\ ~IsContainer(1) /\ IsContainer(2) /\ ~IsContainer(3)
    /\ status[1] = "failed" /\ test_results[1] # <<>>
    /\ status[2] = "skipped" /\ status[3] = "skipped"

----------------------------------------------------------------------------
(* C14: in run_hierarchical_op_by_op a node is exported and tested before
   any of its descendants (depth-first, parent before children), and the
   container roll-up starts only after the whole traversal has finished: a
   container's rolled-up status is never computed before every one of its
   descendants has received its traversal status. *)

\* _export_ir or _run_op_by_op has been invoked for n
Invoked(n) == export_calls[n] > 0 \/ test_results[n] # <<>>

InvokedStep(n) ==
    \/ export_calls'[n] # export_calls[n]
    \/ test_results'[n] # test_results[n]

C14_Step ==
    /\ \A n \in Nodes :
          InvokedStep(n) =>
              /\ \A d \in Descendants(n) : ~Invoked(d) /\ status[d] = None
              /\ \A a \in Nodes : IsAncestor(a, n) => status[a] # None
    /\ (pc = "analyze" /\ pc' = "returned") =>
          /\ pending = <<>>
          /\ \A k \in Nodes : status[k] # None
    /\ pc' = "analyze" =>
          \A n \in Nodes :
              IsContainer(n) => status'[n] \in {None, "skipped", "inherited_success"}

C14_ParentFirstRollUpLast == [][C14_Step]_vars

C14_Witness ==
    /\ pc = "returned" /\ ~root_only
    /\ n_nodes = 3 /\ parent[2] = 1 /\ parent[3] = 2
    /\ ~IsContainer(1) /\ IsContainer(2) /\ ~IsContainer(3)
    /\ Invoked(1) /\ Invoked(3)
    /\ status[1] = "failed" /\ status[3] = "ir_export_failed"
    /\ status[2] = "failed"

----------------------------------------------------------------------------
(* C15: whenever _run_op_by_op reports a failed test run (non-zero exit
   code, timeout, or unexpected exception) the returned failed_ops list is
   non-empty: it holds the per-op failures recovered from the JSON report,
   or else exactly one synthetic PYTEST_FAILED, TIMEOUT or ERROR record. *)

\* the result r is what _run_op_by_op returns for a run that failed this way
FailedRunGiving(r, outcome, returncode, report) ==
    /\ outcome = "exit" => returncode # 0
    /\ r = RunOpByOp(TRUE, outcome, returncode, report)

C15_FailedRunNamesAFailure ==
    \A n \in Nodes : \A k \in DOMAIN test_results[n] :
        LET r == test_results[n][k] IN
        \A outcome \in {"timeout", "error", "exit"}, returncode \in {0, 1},
           report \in {<<>>, <<"ttir.matmul">>} :
            FailedRunGiving(r, outcome, returncode, report) =>
                /\ ~r.success /\ ~r.skipped
                /\ r.failed_ops # <<>>
                /\ r.failed_ops =
                      IF outcome = "timeout" THEN <<"TIMEOUT">>
                      ELSE IF outcome = "error" THEN <<"ERROR">>
                      ELSE IF report # <<>> THEN report
                      ELSE <<"PYTEST_FAILED">>

C15_Witness ==
    /\ pc = "returned" /\ n_nodes = 3
    /\ test_results[1] = <<RunOpByOp(TRUE, "exit", 1, <<>>)>>
    /\ test_results[2] = <<RunOpByOp(TRUE, "exit", 1, <<"ttir.matmul">>)>>
    /\ test_results[3] = <<RunOpByOp(TRUE, "timeout", 0, <<>>)>>
    /\ failed_ops[1] = <<"PYTEST_FAILED">>
    /\ failed_ops[2] = <<"ttir.matmul">>
    /\ failed_ops[3] = <<"TIMEOUT">>

----------------------------------------------------------------------------
(* ttchop/log_parser.py: parse_op_by_op_log

   A line of op_by_op.log is named by what the parser's substring tests and
   regular expressions read from it, ANSI codes and outer blanks stripped. *)

MaxLogLines == 5       \* an op_by_op.log has at most this many lines

LogLineKinds ==
    {"start_main",     \* ... Starting execution of program: main
     "start_sub",      \* ... Starting execution of program: main_const_eval_0
     "finish_main",    \* ... Finished execution of program: main
     "finish_sub",     \* ... Finished execution of program: main_const_eval_0
     "executing",      \* ... Executing operation: "ttnn.add" ...
     "fatal",          \* TT_FATAL: msg (assert.hpp:1)
     "backtrace",      \* backtrace:
     "info"}           \* a timestamped line with none of the markers

\* "Starting execution of program: main" in stripped
HasStarting(l) == l \in {"start_main", "start_sub"}

\* "main_" in stripped
HasMainUnderscore(l) == l \in {"start_sub", "finish_sub"}

\* "Finished execution of program: main_" in stripped
HasFinishedSub(l) == l = "finish_sub"

\* "Finished execution of program: main" in stripped
HasFinished(l) == l \in {"finish_main", "finish_sub"}

\* "Executing operation:" in stripped
HasExecuting(l) == l = "executing"

\* "TT_FATAL" in stripped
HasFatal(l) == l = "fatal"

\* _is_error_trace_line
IsErrorTraceLine(l) == l \in {"fatal", "backtrace"}

\* _extract_op_name
ExtractOpName(l) == "ttnn.add"

\* the group the TT_FATAL regular expression captures
FatalMessage(l) == "msg"

\* _finalize_error_trace: "\n".join(error_lines), or None for no lines
FinalizeErrorTrace(error_lines) ==
    [none |-> error_lines = <<>>, text |-> error_lines]

\* a block as it is appended to blocks
Finalized(b, success) ==
    [success |-> success, last_ttnn_op |-> b.last_ttnn_op,
     error_message |-> b.error_message,
     error_trace |-> FinalizeErrorTrace(b.error_lines)]

\* lines 54-60
NewBlock ==
    [present |-> TRUE, success |-> TRUE, last_ttnn_op |-> None,
     error_message |-> None, error_lines |-> <<>>, finished |-> FALSE]

LogLooping == pc = "log" /\ log_pos < Len(log_lines)

line == At(log_lines, log_pos)

logRest == <<parserVars, memStatsVars, runnerVars, treeBuildVars, extractVars,
            cliVars, analysisVars>>

\* lines 42-46
LogSubStart ==
    /\ LogLooping
    /\ HasStarting(line) /\ HasMainUnderscore(line)
    /\ sub_depth' = sub_depth + 1
    /\ log_pos' = log_pos + 1
    /\ UNCHANGED <<pc, log_lines, blocks, current_block, collecting_error, logRest>>

\* lines 47-62
LogTopStart ==
    /\ LogLooping
    /\ HasStarting(line) /\ ~HasMainUnderscore(line)
    /\ collecting_error' = FALSE
    /\ blocks' = IF current_block.present
                 THEN Append(blocks,
                             Finalized(current_block,
                                       IF ~current_block.finished THEN FALSE
                                       ELSE current_block.success))
                 ELSE blocks
    /\ current_block' = NewBlock
    /\ sub_depth' = 0
    /\ log_pos' = log_pos + 1
    /\ UNCHANGED <<pc, log_lines, logRest>>

\* lines 64-65
LogNoBlock ==
    /\ LogLooping
    /\ ~HasStarting(line)
    /\ ~current_block.present
    /\ log_pos' = log_pos + 1
    /\ UNCHANGED <<pc, log_lines, blocks, current_block, sub_depth,
                   collecting_error, logRest>>

\* the line is neither a start marker nor before the first block
InBlock == LogLooping /\ ~HasStarting(line) /\ current_block.present

\* lines 68-70
LogSubFinish ==
    /\ InBlock
    /\ HasFinishedSub(line)
    /\ sub_depth' = SetMax({0, sub_depth - 1})
    /\ log_pos' = log_pos + 1
    /\ UNCHANGED <<pc, log_lines, blocks, current_block, collecting_error, logRest>>

\* variant: a TT_FATAL line inside a sub-program fails the enclosing block
LogInsideSub_ReadsFatal ==
    /\ InBlock
    /\ ~HasFinishedSub(line)
    /\ sub_depth > 0
    /\ current_block' = IF HasFatal(line)
                        THEN [current_block EXCEPT !.success = FALSE]
                        ELSE current_block
    /\ log_pos' = log_pos + 1
    /\ UNCHANGED <<pc, log_lines, blocks, sub_depth, collecting_error, logRest>>

\* lines 73-74
LogInsideSub ==
    /\ InBlock
    /\ ~HasFinishedSub(line)
    /\ sub_depth > 0
    /\ log_pos' = log_pos + 1
    /\ UNCHANGED <<pc, log_lines, blocks, current_block, sub_depth,
                   collecting_error, logRest>>

\* the line reaches line 77
AtTopLevel == InBlock /\ ~HasFinishedSub(line) /\ sub_depth = 0

\* lines 77-80
LogTopFinish ==
    /\ AtTopLevel
    /\ HasFinished(line) /\ ~HasMainUnderscore(line)
    /\ current_block' = [current_block EXCEPT !.finished = TRUE]
    /\ collecting_error' = FALSE
    /\ log_pos' = log_pos + 1
    /\ UNCHANGED <<pc, log_lines, blocks, sub_depth, logRest>>

\* the line reaches line 83
Unfinished == AtTopLevel /\ ~(HasFinished(line) /\ ~HasMainUnderscore(line))

\* lines 83-84
LogAfterFinish ==
    /\ Unfinished
    /\ current_block.finished
    /\ log_pos' = log_pos + 1
    /\ UNCHANGED <<pc, log_lines, blocks, current_block, sub_depth,
                   collecting_error, logRest>>

\* lines 87-92
LogCollect ==
    /\ Unfinished /\ ~current_block.finished
    /\ collecting_error
    /\ IF IsErrorTraceLine(line)
       THEN /\ current_block' =
                   [current_block EXCEPT !.error_lines = Append(@, line)]
            /\ UNCHANGED collecting_error
       ELSE /\ collecting_error' = FALSE
            /\ UNCHANGED current_block
    /\ log_pos' = log_pos + 1
    /\ UNCHANGED <<pc, log_lines, blocks, sub_depth, logRest>>

\* the line reaches line 95
Scanned == Unfinished /\ ~current_block.finished /\ ~collecting_error

\* lines 95-97
LogExecuting ==
    /\ Scanned
    /\ HasExecuting(line)
    /\ current_block' = [current_block EXCEPT !.last_ttnn_op = ExtractOpName(line)]
    /\ log_pos' = log_pos + 1
    /\ UNCHANGED <<pc, log_lines, blocks, sub_depth, collecting_error, logRest>>

\* lines 100-110
LogFatal ==
    /\ Scanned
    /\ ~HasExecuting(line) /\ HasFatal(line)
    /\ current_block' = [current_block EXCEPT
                            !.success = FALSE,
                            !.error_message = FatalMessage(line),
                            !.error_lines = Append(@, line)]
    /\ collecting_error' = TRUE
    /\ log_pos' = log_pos + 1
    /\ UNCHANGED <<pc, log_lines, blocks, sub_depth, logRest>>

\* the line matches none of the tests
LogOther ==
    /\ Scanned
    /\ ~HasExecuting(line) /\ ~HasFatal(line)
    /\ log_pos' = log_pos + 1
    /\ UNCHANGED <<pc, log_lines, blocks, current_block, sub_depth,
                   collecting_error, logRest>>

\* variant: the last block is appended as it stands
LogEnd_AsItStands ==
    /\ pc = "log" /\ log_pos = Len(log_lines)
    /\ blocks' = IF current_block.present
                 THEN Append(blocks, Finalized(current_block, current_block.success))
                 ELSE blocks
    /\ pc' = "log_done"
    /\ UNCHANGED <<log_lines, log_pos, current_block, sub_depth,
                   collecting_error, logRest>>

\* lines 112-119
LogEnd ==
    /\ pc = "log" /\ log_pos = Len(log_lines)
    /\ blocks' = IF current_block.present
                 THEN Append(blocks,
                             Finalized(current_block,
                                       IF ~current_block.finished /\ current_block.success
                                       THEN FALSE ELSE current_block.success))
                 ELSE blocks
    /\ pc' = "log_done"
    /\ UNCHANGED <<log_lines, log_pos, current_block, sub_depth,
                   collecting_error, logRest>>

\* log_path.read_text().split("\n") is never the empty list
LogFiles == SeqsUpTo(LogLineKinds, MaxLogLines) \ {<<>>}

InitLog ==
    /\ pc = "log"
    /\ log_lines \in LogFiles
    /\ log_pos = 0 /\ blocks = <<>> /\ current_block = NoBlock
    /\ sub_depth = 0 /\ collecting_error = FALSE
    /\ lines = <<>> /\ registry_output = FALSE /\ registry = <<>>
    /\ ParserStart
    /\ MemStatsIdle
    /\ RunnerIdle
    /\ TreeBuildIdle
    /\ ExtractIdle
    /\ CliIdle
    /\ AnalysisIdle

NextLog ==
    \/ LogSubStart
    \/ LogTopStart
    \/ LogNoBlock
    \/ LogSubFinish
    \/ LogInsideSub
    \/ LogTopFinish
    \/ LogAfterFinish
    \/ LogCollect
    \/ LogExecuting
    \/ LogFatal
    \/ LogOther
    \/ LogEnd

SpecLog == InitLog /\ [][NextLog]_vars

----------------------------------------------------------------------------
(* C16: parse_op_by_op_log produces one block per top-level 'Starting
   execution of program: main' marker, and a block's success is false if and
   only if a TT_FATAL marker was seen in the block or no top-level 'Finished
   execution of program: main' line occurs between the block's start marker
   and the next top-level start marker or the end of the log.

   C16_Original reads "seen" and "occurs" as: the line is in the block's
   span of the log.  C16_Amended reads them as the parser does: the line
   stands at nesting depth 0 of main_ sub-programs and, for a TT_FATAL line,
   before the block's top-level Finished line. *)

IsTopStart(l) == HasStarting(l) /\ ~HasMainUnderscore(l)

IsTopFinish(l) == HasFinished(l) /\ ~HasMainUnderscore(l)

\* positions (from 1) of the top-level start markers of the log, ascending
TopStarts == Ascending({p \in DOMAIN log_lines : IsTopStart(log_lines[p])})

\* the lines of block k after its start marker
Span(k) ==
    (TopStarts[k] + 1) ..
        (IF k < Len(TopStarts) THEN TopStarts[k + 1] - 1 ELSE Len(log_lines))

\* how many main_ sub-programs are open just before line p of block k
RECURSIVE DepthBefore(_, _)
DepthBefore(k, p) ==
    IF p = TopStarts[k] + 1 THEN 0
    ELSE LET d == DepthBefore(k, p - 1)
             l == log_lines[p - 1] IN
         IF HasStarting(l) /\ HasMainUnderscore(l) THEN d + 1
         ELSE IF HasFinishedSub(l) THEN (IF d > 0 THEN d - 1 ELSE 0)
         ELSE d

\* the top-level Finished lines of block k that stand outside sub-programs
FinishesRead(k) ==
    {p \in Span(k) : IsTopFinish(log_lines[p]) /\ DepthBefore(k, p) = 0}

\* a TT_FATAL line of block k outside sub-programs, before the block finished
FatalRead(k) ==
    \E p \in Span(k) :
        /\ HasFatal(log_lines[p]) /\ ~HasExecuting(log_lines[p])
        /\ DepthBefore(k, p) = 0
        /\ \A q \in FinishesRead(k) : p < q

C16_Original ==
    pc = "log_done" =>
        /\ Len(blocks) = Len(TopStarts)
        /\ \A k \in DOMAIN blocks :
              ~blocks[k].success <=>
                  \/ \E p \in Span(k) : HasFatal(log_lines[p])
                  \/ ~\E p \in Span(k) : IsTopFinish(log_lines[p])

C16_Amended ==
    pc = "log_done" =>
        /\ Len(blocks) = Len(TopStarts)
        /\ \A k \in DOMAIN blocks :
              ~blocks[k].success <=> (FatalRead(k) \/ FinishesRead(k) = {})

C16_Witness ==
    /\ pc = "log_done"
    /\ log_lines = <<"start_main", "fatal", "start_main", "finish_main", "fatal">>
    /\ Len(blocks) = 2
    /\ ~blocks[1].success /\ blocks[2].success

----------------------------------------------------------------------------
(* C17: in parse_op_by_op_log no line that lies between a 'Starting
   execution of program: main_...' marker and its matching 'Finished
   execution of program: main_...' marker contributes to the enclosing
   block: reading such a line never sets last_ttnn_op, error_message or the
   lines of error_trace and never changes the block's success flag.  The
   markers are matched within one block by counting, and the formula covers
   every line of a block before which a main_ sub-program is open. *)

\* the block whose span holds line p, 0 before the first top-level start
BlockOf(p) == Cardinality({q \in Range(TopStarts) : q < p})

\* line p lies inside a block, after the start of a main_ sub-program that
\* has not finished yet
InsideSubProgram(p) ==
    /\ ~IsTopStart(log_lines[p])
    /\ BlockOf(p) >= 1
    /\ DepthBefore(BlockOf(p), p) > 0

C17_Step ==
    (pc = "log" /\ log_pos' = log_pos + 1 /\ InsideSubProgram(log_pos + 1)) =>
        /\ current_block' = current_block
        /\ blocks' = blocks
        /\ collecting_error' = collecting_error

C17_SubProgramLinesExcluded == [][C17_Step]_vars

C17_Witness ==
    /\ pc = "log_done"
    /\ log_lines = <<"start_main", "start_sub", "fatal", "finish_sub", "finish_main">>
    /\ blocks = <<[success |-> TRUE, last_ttnn_op |-> None,
                   error_message |-> None,
                   error_trace |-> FinalizeErrorTrace(<<>>)]>>

----------------------------------------------------------------------------
(* ttchop/module_tree.py: build_module_tree, on the flat module list that
   extract_unique_modules writes (each module's parent is get_parent_path of
   its module_path; module_paths are distinct and hold no brackets) *)

MaxModules == 4        \* a flat module list has at most this many modules

RootPath == <<"(root)">>

\* the module_paths a list is drawn from
ModulePaths == {RootPath, <<"a">>, <<"a", "b">>, <<"a", "b", "c">>, <<"d">>}

\* utils.get_parent_path
GetParentPath(module_path) ==
    IF module_path \in {RootPath, <<"full_model">>, <<"">>} THEN NoPath
    ELSE IF Len(module_path) = 1 THEN <<"full_model">>
    ELSE SubSeq(module_path, 1, Len(module_path) - 1)

\* the keys of the nodes dict
NodePaths(ms) == {ms[k].module_path : k \in DOMAIN ms}

\* lines 47-52: the longest proper prefix of path that is a node, None if none
NearestKnownAncestor(path, nodes) ==
    LET found == {n \in 1..Len(path) - 1 : SubSeq(path, 1, n) \in nodes} IN
    IF found = {} THEN NoPath ELSE SubSeq(path, 1, SetMax(found))

\* lines 38-55: the loop from its k-th iteration on
RECURSIVE AttachFrom(_, _, _, _)
AttachFrom(ms, k, root, children) ==
    IF k > Len(ms) THEN [root |-> root, children |-> children]
    ELSE LET path == ms[k].module_path
             parent_path == ms[k].parent
             nodes == NodePaths(ms)
             ancestor == NearestKnownAncestor(path, nodes) IN
         IF parent_path = NoPath
         THEN AttachFrom(ms, k + 1, path, children)
         ELSE IF parent_path \in nodes
         THEN AttachFrom(ms, k + 1, root,
                         [children EXCEPT ![parent_path] = Append(@, path)])
         ELSE IF ancestor # NoPath
         THEN AttachFrom(ms, k + 1, root,
                         [children EXCEPT ![ancestor] = Append(@, path)])
         ELSE IF root # NoPath
         THEN AttachFrom(ms, k + 1, root,
                         [children EXCEPT ![root] = Append(@, path)])
         ELSE AttachFrom(ms, k + 1, root, children)

treeBuildRest == <<parserVars, memStatsVars, runnerVars, logVars, extractVars,
                  cliVars, analysisVars>>

\* lines 26-28
BuildNoModules ==
    /\ pc = "build"
    /\ modules = <<>>
    /\ pc' = "built"
    /\ UNCHANGED <<treeBuildVars, treeBuildRest>>

\* lines 30-57
BuildModuleTree ==
    /\ pc = "build"
    /\ modules # <<>>
    /\ LET built == AttachFrom(modules, 1, NoPath,
                               [p \in NodePaths(modules) |-> <<>>]) IN
          /\ tree_root' = built.root
          /\ tree_children' = built.children
    /\ pc' = "built"
    /\ UNCHANGED <<modules, treeBuildRest>>

\* a module of the list, as extract_unique_modules writes it
ModuleAt(path) == [module_path |-> path, parent |-> GetParentPath(path)]

\* the lists of distinct modules, in any order, that hold the root module
ModuleLists ==
    {<<>>} \cup
    {ms \in SeqsUpTo({ModuleAt(p) : p \in ModulePaths}, MaxModules) :
        /\ \A j, k \in DOMAIN ms : j # k => ms[j] # ms[k]
        /\ \E k \in DOMAIN ms : ms[k].module_path = RootPath}

InitBuild ==
    /\ pc = "build"
    /\ modules \in ModuleLists
    /\ tree_root = NoPath /\ tree_children = <<>>
    /\ lines = <<>> /\ registry_output = FALSE /\ registry = <<>>
    /\ ParserStart
    /\ MemStatsIdle
    /\ RunnerIdle
    /\ LogIdle
    /\ ExtractIdle
    /\ CliIdle
    /\ AnalysisIdle

NextBuild == BuildNoModules \/ BuildModuleTree

SpecBuild == InitBuild /\ [][NextBuild]_vars

----------------------------------------------------------------------------
(* C18: build_module_tree returns a tree in which exactly one node has a
   null parent_path (the root) and every module of the flat list is a node
   reachable from the root exactly once, whatever the order of the list: a
   module whose declared parent is a known module hangs under it, and a
   module whose declared parent is not known hangs under its nearest known
   dotted-path ancestor or, if none, directly under the root. *)

\* the node under which the claim places the module at path
PlaceOf(path) ==
    LET nodes == NodePaths(modules) IN
    IF GetParentPath(path) \in nodes THEN GetParentPath(path)
    ELSE IF NearestKnownAncestor(path, nodes) # NoPath
    THEN NearestKnownAncestor(path, nodes)
    ELSE tree_root

\* the (node, position) pairs at which path is held as a child
HeldAt(path) ==
    {<<n, k>> \in NodePaths(modules) \X (1..MaxModules + 1) :
        k \in DOMAIN tree_children[n] /\ tree_children[n][k] = path}

RECURSIVE ReachableFrom(_)
ReachableFrom(path) ==
    {path} \cup UNION {ReachableFrom(c) : c \in Range(tree_children[path])}

----------------------------------------------------------------------------
(* ttchop/module_extractor.py: extract_unique_modules, from the shapes
   captured on.  named_modules[k] is the k-th module model.named_modules()
   yields, with what the loop of lines 83-99 reads for it.  A shape string
   is a number that keeps the strings' order; the snapshotted parameters
   are named by their json.dumps(sort_keys=True) text. *)

MaxSubmodules == 4     \* model.named_modules() yields at most this many

\* "(root)" for the model itself, then the submodules' distinct names
PathOf(k) == IF k = 1 THEN "(root)" ELSE <<"a", "b", "c", "d", "e">>[k - 1]

ExtractorClasses == {"Sequential", "Conv2d"}

\* the input and output shape lists captured for one module
CapturedShapes ==
    {[inputs |-> <<1, 2>>, outputs |-> <<1>>],
     [inputs |-> <<2, 1>>, outputs |-> <<1>>],
     [inputs |-> <<1, 2>>, outputs |-> <<2>>]}

ParameterTexts == {"{}", "{\"stride\": 2}"}

\* sorted(shapes)
Sorted(shapes) == SortSeq(shapes, LAMBDA a, b : a < b)

\* variant: containers are keyed like every other module
UniquenessKey_ByContent(cls, input_shapes, output_shapes, parameters, path) ==
    [container |-> FALSE, class_name |-> cls, path |-> "",
     inputs |-> Sorted(input_shapes), outputs |-> Sorted(output_shapes),
     parameters |-> parameters]

\* _uniqueness_key: the joined string, by its parts
UniquenessKey(cls, input_shapes, output_shapes, parameters, path) ==
    IF cls \in CONTAINER_TYPES
    THEN [container |-> TRUE, class_name |-> cls, path |-> path,
          inputs |-> <<>>, outputs |-> <<>>, parameters |-> ""]
    ELSE [container |-> FALSE, class_name |-> cls, path |-> "",
          inputs |-> Sorted(input_shapes), outputs |-> Sorted(output_shapes),
          parameters |-> parameters]

KeyOf(m) ==
    UniquenessKey(m.class_name, m.input_shapes, m.output_shapes,
                  m.parameters, m.module_path)

\* lines 81-99: groups after the modules from the k-th on are added, groups
\* being the dict's (key, members) items in insertion order
RECURSIVE GroupFrom(_, _, _)
GroupFrom(ms, k, groups) ==
    IF k > Len(ms) THEN groups
    ELSE LET key == KeyOf(ms[k])
             at == {g \in DOMAIN groups : groups[g].key = key} IN
         GroupFrom(ms, k + 1,
                   IF at = {}
                   THEN Append(groups, [key |-> key, members |-> <<ms[k]>>])
                   ELSE [g \in DOMAIN groups |->
                            IF g \in at
                            THEN [groups[g] EXCEPT !.members = Append(@, ms[k])]
                            ELSE groups[g]])

\* lines 104-111: the ModuleInfo of the group at index idx (from 0), whose id
\* generate_module_id derives from idx alone
UniqueModule(idx, group) ==
    [id |-> idx,
     class_name |-> group.members[1].class_name,
     module_path |-> group.members[1].module_path,
     input_shapes |-> group.members[1].input_shapes,
     output_shapes |-> group.members[1].output_shapes,
     parameters |-> group.members[1].parameters,
     occurrences |-> [j \in DOMAIN group.members |-> group.members[j].module_path]]

extractRest == <<parserVars, memStatsVars, runnerVars, logVars, treeBuildVars,
                cliVars, analysisVars>>

\* lines 80-129
ExtractUniqueModules ==
    /\ pc = "extract"
    /\ LET groups == GroupFrom(named_modules, 1, <<>>) IN
          /\ unique_modules' =
                 [g \in DOMAIN groups |-> UniqueModule(g - 1, groups[g])]
          /\ total_modules' =
                 SumOf([g \in DOMAIN groups |-> Len(groups[g].members)],
                       DOMAIN groups)
    /\ pc' = "extracted"
    /\ UNCHANGED <<named_modules, extractRest>>

NamedModule(k, m) ==
    [module_path |-> PathOf(k), class_name |-> m.class_name,
     input_shapes |-> m.shapes.inputs, output_shapes |-> m.shapes.outputs,
     parameters |-> m.parameters]

\* what the loop reads for one module; a container has none of MODULE_ATTRS
ExtractedModules ==
    {m \in [class_name : ExtractorClasses, shapes : CapturedShapes,
            parameters : ParameterTexts] :
        m.class_name \in CONTAINER_TYPES => m.parameters = "{}"}

InitExtract ==
    /\ pc = "extract"
    /\ \E n \in 1..MaxSubmodules :
       \E ms \in [1..n -> ExtractedModules] :
          named_modules = [k \in 1..n |-> NamedModule(k, ms[k])]
    /\ unique_modules = <<>> /\ total_modules = 0
    /\ lines = <<>> /\ registry_output = FALSE /\ registry = <<>>
    /\ ParserStart
    /\ MemStatsIdle
    /\ RunnerIdle
    /\ LogIdle
    /\ TreeBuildIdle
    /\ CliIdle
    /\ AnalysisIdle

NextExtract == ExtractUniqueModules

SpecExtract == InitExtract /\ [][NextExtract]_vars

----------------------------------------------------------------------------
(* C19: extract_unique_modules partitions the model's submodule paths by
   uniqueness key: two non-container submodules with the same class, input
   shapes, output shapes and snapshotted parameters fall into one ModuleInfo
   whose occurrences lists both paths; two container modules at different
   paths are never merged; every path appears in exactly one ModuleInfo's
   occurrences, every occurrences list is non-empty and contains that
   ModuleInfo's own module_path, and total_modules equals the sum of the
   occurrences lengths. *)

\* the (ModuleInfo, position) pairs at which path is listed as an occurrence
OccursAt(path) ==
    {<<u, k>> \in (DOMAIN unique_modules) \X (1..MaxSubmodules + 1) :
        /\ k \in DOMAIN unique_modules[u].occurrences
        /\ unique_modules[u].occurrences[k] = path}

InfoOf(path) == (CHOOSE at \in OccursAt(path) : TRUE)[1]

SameContent(a, b) ==
    /\ a.class_name = b.class_name
    /\ a.input_shapes = b.input_shapes /\ a.output_shapes = b.output_shapes
    /\ a.parameters = b.parameters

C19_PartitionByKey ==
    pc = "extracted" =>
        /\ \A k \in DOMAIN named_modules :
              Cardinality(OccursAt(named_modules[k].module_path)) = 1
        /\ \A u \in DOMAIN unique_modules :
              /\ unique_modules[u].occurrences # <<>>
              /\ unique_modules[u].module_path \in Range(unique_modules[u].occurrences)
              /\ Range(unique_modules[u].occurrences) \subseteq
                     {named_modules[k].module_path : k \in DOMAIN named_modules}
        /\ total_modules =
               SumOf([u \in DOMAIN unique_modules |->
                         Len(unique_modules[u].occurrences)],
                     DOMAIN unique_modules)
        /\ \A j, k \in DOMAIN named_modules :
              LET a == named_modules[j]
                  b == named_modules[k] IN
              /\ (/\ a.class_name \notin CONTAINER_TYPES
                  /\ SameContent(a, b)) =>
                     InfoOf(a.module_path) = InfoOf(b.module_path)
              /\ (/\ j # k
                  /\ a.class_name \in CONTAINER_TYPES
                  /\ b.class_name \in CONTAINER_TYPES) =>
                     InfoOf(a.module_path) # InfoOf(b.module_path)

C19_Witness ==
    /\ pc = "extracted"
    /\ Len(named_modules) = 4 /\ Len(unique_modules) = 3
    /\ SameContent(named_modules[1], named_modules[2])
    /\ named_modules[1].class_name = "Sequential"
    /\ SameContent(named_modules[3], named_modules[4])
    /\ named_modules[3].class_name = "Conv2d"
    /\ unique_modules[3].occurrences = <<"b", "c">>
    /\ total_modules = 4

----------------------------------------------------------------------------
(* ttchop/cli.py: main.  Stage 2 runs run_hierarchical_op_by_op, with
   root_only left at its default, on the tree build_module_tree returns;
   the tree variables hold that tree from the start (n_nodes = 0: None). *)

MaxCliNodes == 2       \* the tree of a command-line run has at most this many nodes

cliRest == <<parserVars, memStatsVars, runnerVars, logVars, treeBuildVars,
             extractVars, analysisVars>>

\* lines 25-30
CliLoadFunctions ==
    /\ pc = "cli_load"
    /\ \E loaded \in BOOLEAN :
          IF loaded
          THEN pc' = "cli_setup" /\ UNCHANGED <<failures, exit_code>>
          ELSE /\ failures' = failures \cup {"load"}
               /\ exit_code' = "1"
               /\ pc' = "cli_exited"
    /\ UNCHANGED <<stages, cliRest>>

\* lines 33-37: an exception here is caught by nothing
CliSetup ==
    /\ pc = "cli_setup"
    /\ \E raised \in BOOLEAN :
          IF ~raised
          THEN pc' = "cli_stage1" /\ UNCHANGED <<failures, exit_code>>
          ELSE /\ failures' = failures \cup {"setup"}
               /\ exit_code' = "1"
               /\ pc' = "cli_exited"
    /\ UNCHANGED <<stages, cliRest>>

\* lines 39-49
CliExtract ==
    /\ pc = "cli_stage1"
    /\ stages' = Append(stages, 1)
    /\ \E raised \in BOOLEAN :
          IF ~raised
          THEN pc' = "cli_stage2" /\ UNCHANGED <<failures, exit_code>>
          ELSE /\ failures' = failures \cup {"extract"}
               /\ exit_code' = "1"
               /\ pc' = "cli_exited"
    /\ UNCHANGED cliRest

\* lines 51-56, and 66-67 when build_module_tree raises
CliBuildTree ==
    /\ pc = "cli_stage2"
    /\ stages' = Append(stages, 2)
    /\ \E raised \in BOOLEAN :
          IF raised
          THEN failures' = failures \cup {"build"} /\ pc' = "cli_summary"
          ELSE /\ pc' = IF n_nodes = 0 THEN "cli_summary" ELSE "start"
               /\ UNCHANGED failures
    /\ UNCHANGED <<exit_code, cliRest>>

\* _ensure_system_desc raised SystemExit(1), which "except Exception" on
\* line 66 does not catch
CliSystemExit ==
    /\ pc = "exit"
    /\ failures' = failures \cup {"system_desc"}
    /\ exit_code' = "1"
    /\ pc' = "cli_exited"
    /\ UNCHANGED <<stages, cliRest>>

\* variant: an Exception raised by run_hierarchical_op_by_op ends the run
CliRunRaises_Uncaught ==
    /\ pc = "analyze"
    /\ failures' = failures \cup {"run"}
    /\ exit_code' = "1"
    /\ pc' = "cli_exited"
    /\ UNCHANGED <<stages, cliRest>>

\* lines 57-62 and 66-67: run_hierarchical_op_by_op raises an Exception
CliRunRaises ==
    /\ pc = "analyze"
    /\ failures' = failures \cup {"run"}
    /\ pc' = "cli_summary"
    /\ UNCHANGED <<stages, exit_code, cliRest>>

\* lines 63-67
CliFlush ==
    /\ pc = "returned"
    /\ \E raised \in BOOLEAN :
          failures' = IF raised THEN failures \cup {"flush"} ELSE failures
    /\ pc' = "cli_summary"
    /\ UNCHANGED <<stages, exit_code, cliRest>>

\* lines 69-79
CliSummary ==
    /\ pc = "cli_summary"
    /\ pc' = "cli_stage3"
    /\ UNCHANGED <<cliVars, cliRest>>

\* lines 81-88, then main returns
CliVisualize ==
    /\ pc = "cli_stage3"
    /\ stages' = Append(stages, 3)
    /\ \E raised \in BOOLEAN :
          failures' = IF raised THEN failures \cup {"visualize"} ELSE failures
    /\ exit_code' = "0"
    /\ pc' = "cli_exited"
    /\ UNCHANGED cliRest

InitCli ==
    /\ pc = "cli_load"
    /\ n_nodes \in 0..MaxCliNodes
    /\ parent \in ParentMaps(n_nodes)
    /\ class_name \in [1..n_nodes -> ClassNames]
    /\ module_id \in [1..n_nodes -> ModuleIds]
    /\ root_only = FALSE
    /\ status = [k \in 1..n_nodes |-> None]
    /\ failed_ops = [k \in 1..n_nodes |-> <<>>]
    /\ exported = {} /\ pending = <<>>
    /\ export_calls = [k \in 1..n_nodes |-> 0]
    /\ test_results = [k \in 1..n_nodes |-> <<>>]
    /\ stages = <<>> /\ failures = {} /\ exit_code = None
    /\ lines = <<>> /\ registry_output = FALSE /\ registry = <<>>
    /\ ParserStart
    /\ MemStatsIdle
    /\ LogIdle
    /\ TreeBuildIdle
    /\ ExtractIdle
    /\ AnalysisIdle

NextCli ==
    \/ CliLoadFunctions
    \/ CliSetup
    \/ CliExtract
    \/ CliBuildTree
    \/ EnsureSystemDesc
    \/ AnalyzeContainer
    \/ AnalyzeExportFailed
    \/ AnalyzeNoIrsDir
    \/ AnalyzeTestSkipped
    \/ AnalyzeTestSuccess
    \/ AnalyzeTestFailed
    \/ RollUp
    \/ CliSystemExit
    \/ CliRunRaises
    \/ CliFlush
    \/ CliSummary
    \/ CliVisualize

SpecCli == InitCli /\ [][NextCli]_vars

----------------------------------------------------------------------------
(* C20: the ttchop CLI runs its three stages in order with this failure
   isolation: a failure in stage 1 (module extraction) ends the run with
   exit code 1 before stage 2 or 3 starts; a failure anywhere in stage 2
   (tree build, hierarchical op-by-op, status flush) is caught and stage 3
   is still attempted; a failure in stage 3 is caught and does not change
   the exit outcome.

   C20_Original counts the system descriptor step of
   run_hierarchical_op_by_op among the failures of stage 2.  C20_Amended
   sets it apart: its failure ends the run with exit code 1 and stage 3 is
   not started. *)

IsPrefix(s, t) == Len(s) <= Len(t) /\ s = SubSeq(t, 1, Len(s))

Exited == pc = "cli_exited"

StagesInOrder == IsPrefix(stages, <<1, 2, 3>>)

Stage1Isolation ==
    "extract" \in failures => Exited /\ exit_code = "1" /\ stages = <<1>>

Stage3Isolation ==
    (Exited /\ 3 \in Range(stages)) => stages = <<1, 2, 3>> /\ exit_code = "0"

C20_Original ==
    /\ StagesInOrder /\ Stage1Isolation /\ Stage3Isolation
    /\ (Exited /\ failures \cap {"build", "system_desc", "run", "flush"} # {}) =>
           stages = <<1, 2, 3>>

C20_Amended ==
    /\ StagesInOrder /\ Stage1Isolation /\ Stage3Isolation
    /\ (Exited /\ failures \cap {"build", "run", "flush"} # {}) =>
           stages = <<1, 2, 3>>
    /\ "system_desc" \in failures =>
           Exited /\ exit_code = "1" /\ stages = <<1, 2>>

C20_Witness ==
    /\ Exited /\ stages = <<1, 2, 3>> /\ exit_code = "0"
    /\ failures = {"run", "visualize"}
    /\ n_nodes = 2 /\ status[1] = "ir_export_failed" /\ status[2] = None

----------------------------------------------------------------------------
(* C28: when run_hierarchical_op_by_op returns normally, every node
   reachable from the root has a non-null status drawn from failed,
   ir_export_failed, success, inherited_success and skipped, for every tree
   shape, every combination of export and test outcomes and both values of
   root_only. *)

C28_EveryNodeHasStatus ==
    pc = "returned" =>
        \A n \in Nodes :
            status[n] \in {"failed", "ir_export_failed", "success",
                          "inherited_success", "skipped"}

C28_Witness ==
    /\ pc = "returned" /\ ~root_only
    /\ n_nodes = 3 /\ parent[2] = 1 /\ parent[3] = 2
    /\ status[1] = "ir_export_failed" /\ status[2] = "success"
    /\ status[3] = "inherited_success"

----------------------------------------------------------------------------
(* C29: after run_hierarchical_op_by_op, for every non-container node, its
   status is failed if and only if its failed_ops list is non-empty; in
   particular a node whose JSON report lists failed operators is never left
   with status success.  The second part fails: _run_op_by_op returns
   success = (returncode == 0) whatever the report lists, and the success
   branch of analyze (lines 281-289) does not look at failed_ops. *)

\* a _run_op_by_op result of n whose failed_ops came from the JSON report
ReportListsFailures(n) ==
    \E k \in DOMAIN test_results[n] :
        /\ test_results[n][k].failed_ops # <<>>
        /\ test_results[n][k].failed_ops \notin
               {<<"PYTEST_FAILED">>, <<"TIMEOUT">>, <<"ERROR">>}

C29_FailedIffFailedOps ==
    pc = "returned" =>
        \A n \in Nodes :
            ~IsContainer(n) =>
                /\ status[n] = "failed" <=> failed_ops[n] # <<>>
                /\ ReportListsFailures(n) => status[n] # "success"

----------------------------------------------------------------------------
(* C27: at every position of parse_log_file's outputs the Memory Record and
   the Operation Record agree on is_weight_op, on const_eval_graph and on
   mlir_op, also once pass 3 and the marking of lines 366-369 have run. *)
ClassificationAgrees(mem, op) ==
    /\ mem.is_weight_op = op.is_weight_op
    /\ mem.const_eval_graph = op.const_eval_graph
    /\ mem.mlir_op = op.mlir_op

C27_RecordsAgree ==
    pc \in {"write", "validate", "done"} =>
        /\ Len(memory_stats) = Len(operations)
        /\ \A k \in DOMAIN memory_stats :
               ClassificationAgrees(memory_stats[k], operations[k])

----------------------------------------------------------------------------
(* C26: the fixed-point loop of pass 3 terminates on every operations array
   parse_log_file builds, and when it ends one further pass would change no
   operation's weights list and add no derived-weight key. *)

MaxPassOps == 2

\* %1 = "ttnn.reshape"(%2): consumes a value a later operation produces
BackOp == Op("%1", "ttnn.reshape", <<"%2">>, <<"2x2">>,
             Layout("dram", 16, 32), "reshape.4")

\* the record pairs of a scan: each operation stamped with the graph on
\* top of const_eval_stack, or with none, and indexed by its position
ScannedOps ==
    UNION {[1..n -> {LoadOp, AddOp, MulOp, BackOp} \X {<<>>, <<CE0>>}] :
              n \in 1..MaxPassOps}

ScannedRecords(scanned) ==
    [k \in DOMAIN scanned |-> OpRecord(scanned[k][1], k - 1, scanned[k][2], {})]

\* pass 3 entered: lines 238-328 have run on the scanned records
InitPass3 ==
    /\ pc = "pass3"
    /\ lines = <<>> /\ registry_output = TRUE /\ registry = Registry
    /\ i = 0 /\ skipped_ops = 0 /\ deallocate_count = 0 /\ get_device_count = 0
    /\ const_eval_stack = <<>> /\ const_eval_cache_misses = {}
    /\ const_eval_ops_count = <<>> /\ live_tensors = <<>> /\ memory_stats = <<>>
    /\ \E scanned \in ScannedOps :
          LET ops == ScannedRecords(scanned) IN
          /\ op_index = Len(ops)
          /\ const_eval_weights = FirstPassWeights(ops, registry)
          /\ operations = SecondPass(FirstPassOps(ops, registry), 1, <<>>,
                                     FirstPassWeights(ops, registry), registry)
    /\ derived_weights = <<>> /\ changed = TRUE
    /\ mem_file = JsonList(<<>>) /\ ops_file = <<>> /\ valid = FALSE
    /\ MemStatsIdle
    /\ RunnerIdle
    /\ ToolsIdle

NextPass3 ==
    \/ PassThree
    \/ MarkWeightOps

\* the loop is sequential code: it keeps taking steps until it is left
SpecPass3 == InitPass3 /\ [][NextPass3]_vars /\ WF_vars(NextPass3)

OneFurtherPass ==
    ThirdPassSweep([ops |-> operations, derived |-> derived_weights,
                    changed |-> FALSE], 1, <<>>)

LoopEnded == pc = "pass3" /\ ~changed

AtFixedPoint ==
    /\ \A k \in DOMAIN operations :
           OneFurtherPass.ops[k].weights = operations[k].weights
    /\ DOMAIN OneFurtherPass.derived = DOMAIN derived_weights
    /\ ~OneFurtherPass.changed

C26_LoopTerminatesAtFixedPoint ==
    /\ (pc = "pass3") ~> LoopEnded
    /\ [](LoopEnded => AtFixedPoint)

\* the loop has ended after a pass that registered derived weights
C26_Witness ==
    /\ LoopEnded
    /\ derived_weights # <<>>
    /\ \E k \in DOMAIN operations :
          /\ operations[k].const_eval_graph # None
          /\ ~IsLoadCached(operations[k].mlir_op)
          /\ operations[k].weights # <<>>

----------------------------------------------------------------------------
(* extract_last_run.py: extract_last_run *)

MaxTrimLines == 4
MaxTrimCalls == 2

\* every other group of variables, for the actions of the reporting tools
coreVars == <<parserVars, memStatsVars, runnerVars, logVars, treeBuildVars,
              extractVars, cliVars>>

CoreIdle ==
    /\ lines = <<>> /\ registry_output = FALSE /\ registry = <<>>
    /\ ParserStart /\ MemStatsIdle /\ RunnerIdle
    /\ LogIdle /\ TreeBuildIdle /\ ExtractIdle /\ CliIdle

\* a line of the file on disk: its text and its terminator
FileLine(text, eol) == [text |-> text, eol |-> eol]

\* line 45: marker in line
HasMarker(file_line) == file_line.text = "Got output shape: [1, 32]"

\* lines 35-36: a file opened in text mode yields every line with "\n" as
\* its terminator, whatever the terminator on disk
ReadLines(file) == [k \in DOMAIN file |-> FileLine(file[k].text, "\n")]

\* lines 42-46
RECURSIVE MarkerIndices(_, _)
MarkerIndices(read, k) ==
    IF k >= Len(read) THEN <<>>
    ELSE IF HasMarker(At(read, k))
    THEN <<k>> \o MarkerIndices(read, k + 1)
    ELSE MarkerIndices(read, k + 1)

\* variant: the lines after the last marker are kept
FileAfterExtract_AfterLastMarker(file) ==
    LET read == ReadLines(file)
        marker_indices == MarkerIndices(read, 0)
    IN IF marker_indices = <<>> THEN file
       ELSE SubSeq(read, marker_indices[Len(marker_indices)] + 2, Len(read))

\* lines 48-64: what the file holds when extract_last_run returns
FileAfterExtract(file) ==
    LET read == ReadLines(file)
        marker_indices == MarkerIndices(read, 0)
    IN IF marker_indices = <<>> THEN file
       ELSE LET first_marker_index == At(marker_indices, 0)
            IN SubSeq(read, first_marker_index + 2, Len(read))

trimRest == <<coreVars, peakVars, layoutVars, summaryVars, vizVars>>

\* lines 23-70, on a file that exists
ExtractLastRun ==
    /\ pc = "trim" /\ Len(trim_calls) < MaxTrimCalls
    /\ trim_calls' = Append(trim_calls, log_file)
    /\ log_file' = FileAfterExtract(log_file)
    /\ UNCHANGED <<pc, trimRest>>

TrimLines ==
    {FileLine(text, eol) :
        text \in {"Executing operation", "Got output shape: [1, 32]"},
        eol \in {"\n", "\r\n"}}

InitTrim ==
    /\ pc = "trim"
    /\ log_file \in SeqsUpTo(TrimLines, MaxTrimLines)
    /\ trim_calls = <<>>
    /\ CoreIdle
    /\ PeakIdle /\ LayoutIdle /\ SummaryIdle /\ VizIdle

NextTrim == ExtractLastRun

SpecTrim == InitTrim /\ [][NextTrim]_vars

----------------------------------------------------------------------------
(* C21: extract_last_run leaves the file's content unchanged when no line
   contains "Got output shape:"; otherwise the file afterwards holds exactly
   the lines that followed the first marker line, in order.  Hence a further
   call on a file that no longer contains the marker changes nothing. *)

\* the file as it stood after call k
FileAfterCall(k) == IF k < Len(trim_calls) THEN trim_calls[k + 1] ELSE log_file

ContainsMarker(file) == \E k \in DOMAIN file : HasMarker(file[k])

FirstMarker(file) ==
    CHOOSE k \in DOMAIN file :
        HasMarker(file[k]) /\ \A j \in 1..k - 1 : ~HasMarker(file[j])

\* the lines of after, as read, are those of before that follow position k
HoldsLinesAfter(before, after, k) ==
    /\ Len(after) = Len(before) - k
    /\ \A j \in DOMAIN after :
           ReadLines(after)[j] = ReadLines(before)[k + j]

C21_KeepsLinesAfterFirstMarker ==
    \A k \in DOMAIN trim_calls :
        IF ContainsMarker(trim_calls[k])
        THEN HoldsLinesAfter(trim_calls[k], FileAfterCall(k),
                             FirstMarker(trim_calls[k]))
        ELSE FileAfterCall(k) = trim_calls[k]

\* a file with a marker between other lines, trimmed twice: the first call
\* keeps the two lines after the marker, the second call finds no marker
C21_Witness ==
    /\ Len(trim_calls) = 2
    /\ Len(trim_calls[1]) = 4
    /\ ~HasMarker(trim_calls[1][1]) /\ HasMarker(trim_calls[1][2])
    /\ trim_calls[1][4].eol = "\r\n"
    /\ Len(trim_calls[2]) = 2 /\ ~ContainsMarker(trim_calls[2])
    /\ log_file = trim_calls[2]

----------------------------------------------------------------------------
(* analyzer.py: find_peak_memory *)

MaxPeakRecords == 2

\* what a record's "memory" holds for one memory space: nothing, a view
\* without totalBytesAllocatedPerBank_MB, or a view with that many MB
AbsentView == [present |-> FALSE, has_total |-> FALSE, total |-> 0]
ViewWithout == [present |-> TRUE, has_total |-> FALSE, total |-> 0]
ViewOf(mb) == [present |-> TRUE, has_total |-> TRUE, total |-> mb]

\* lines 44-46: op["memory"][memory_type].get("totalBytesAllocatedPerBank_MB", 0.0)
Allocated(op, space) ==
    IF op.memory[space].has_total THEN op.memory[space].total ELSE 0

\* lines 42-49: the loop from record k on, st holding peak_idx and peak_val
RECURSIVE PeakScan(_, _, _, _)
PeakScan(data, space, k, st) ==
    IF k >= Len(data) THEN st
    ELSE IF /\ At(data, k).memory[space].present
            /\ Allocated(At(data, k), space) > st.peak_val
    THEN PeakScan(data, space, k + 1,
                  [peak_idx |-> k, peak_val |-> Allocated(At(data, k), space)])
    ELSE PeakScan(data, space, k + 1, st)

\* lines 39-53
FindPeakMemory(data, space) ==
    LET st == PeakScan(data, space, 0, [peak_idx |-> -1, peak_val |-> 0])
    IN IF st.peak_idx >= 0
       THEN [peak_idx |-> st.peak_idx, peak_val |-> st.peak_val,
             record |-> At(data, st.peak_idx)]
       ELSE NoPeak

peakRest == <<coreVars, trimVars, layoutVars, summaryVars, vizVars>>

FindPeak ==
    /\ pc = "peak"
    /\ peak' = FindPeakMemory(mem_data, memory_type)
    /\ pc' = "peak_done"
    /\ UNCHANGED <<mem_data, memory_type, peakRest>>

PeakViews == {AbsentView, ViewWithout, ViewOf(0), ViewOf(1), ViewOf(2)}

\* a flat list of Memory Records, each with its index
PeakRecords(n) ==
    {[k \in 1..n |-> [index |-> k - 1, memory |-> ms[k]]] :
        ms \in [1..n -> [{"DRAM", "L1"} -> PeakViews]]}

InitPeak ==
    /\ pc = "peak"
    /\ \E n \in 0..MaxPeakRecords : mem_data \in PeakRecords(n)
    /\ memory_type \in {"DRAM", "L1"}
    /\ peak = NoPeak
    /\ CoreIdle
    /\ TrimIdle /\ LayoutIdle /\ SummaryIdle /\ VizIdle

NextPeak == FindPeak

SpecPeak == InitPeak /\ [][NextPeak]_vars

----------------------------------------------------------------------------
(* C25: find_peak_memory returns (i, v, record) where record i is the first
   record holding the greatest totalBytesAllocatedPerBank_MB for the given
   memory space, and returns (-1, 0.0, {}) if and only if that memory space
   appears in no record. *)

SpaceAppears == \E k \in DOMAIN mem_data : mem_data[k].memory[memory_type].present

Holders == {k \in DOMAIN mem_data : mem_data[k].memory[memory_type].present}

FirstGreatest(k) ==
    /\ k \in Holders
    /\ \A j \in Holders :
           Allocated(mem_data[j], memory_type) <= Allocated(mem_data[k], memory_type)
    /\ \A j \in Holders :
           j < k => Allocated(mem_data[j], memory_type)
                        < Allocated(mem_data[k], memory_type)

C25_PeakIsFirstGreatest ==
    pc = "peak_done" =>
        /\ peak = NoPeak <=> ~SpaceAppears
        /\ peak # NoPeak =>
              /\ FirstGreatest(peak.peak_idx + 1)
              /\ peak.peak_val = Allocated(mem_data[peak.peak_idx + 1], memory_type)
              /\ peak.record = mem_data[peak.peak_idx + 1]

----------------------------------------------------------------------------
(* mlir_parser.py: parse_tensor_layout_info *)

MaxShapeDims == 2
MaxGridDims == 2

\* lines 15-33 and 118: DTYPE_SIZES.get(dtype, 4)
DtypeSize(dtype) ==
    IF dtype \in {"bf16", "f16"} THEN 2
    ELSE IF dtype = "f64" THEN 8
    ELSE IF dtype = "i8" THEN 1
    ELSE 4

\* lines 121-123, 169-171
RECURSIVE Product(_)
Product(shape) ==
    IF shape = <<>> THEN 1 ELSE Head(shape) * Product(Tail(shape))

\* lines 144-147: a grid that is not numbers separated by "x" becomes []
MemrefShape(memref) == IF memref.grid_parses THEN memref.grid ELSE <<>>

\* lines 155-165
PaddedShape(memref) ==
    LET memref_shape == MemrefShape(memref)
        n == Len(memref_shape)
    IN IF n >= 2
       THEN SubSeq(memref_shape, 1, n - 2)
                \o <<memref_shape[n - 1] * memref.tile_h,
                     memref_shape[n] * memref.tile_w>>
       ELSE IF n = 1
       THEN <<memref.tile_h, memref_shape[1] * memref.tile_w>>
       ELSE <<memref.tile_h, memref.tile_w>>

\* line 182: .lower()
Lower(buf_type) ==
    IF buf_type = "DRAM" THEN "dram"
    ELSE IF buf_type = "L1" THEN "l1"
    ELSE buf_type

\* lines 98-193; a quotient is kept as the pair of its terms
ParseTensorLayoutInfo(ts) ==
    IF ts.shape = <<>> \/ ts.dtype = None THEN NoLayoutInfo
    ELSE LET dtype_size == DtypeSize(ts.dtype)
             unpadded_bytes == Product(ts.shape) * dtype_size
             padded_shape == IF ts.memref.matched THEN PaddedShape(ts.memref)
                             ELSE ts.shape
             padded_bytes == IF ts.memref.matched
                             THEN Product(padded_shape) * dtype_size
                             ELSE unpadded_bytes
             result == [returned |-> TRUE, raised |-> FALSE,
                        logical_shape |-> ts.shape,
                        unpadded_bytes |-> unpadded_bytes,
                        is_tiled |-> ts.memref.matched,
                        padded_shape |-> padded_shape,
                        padded_bytes |-> padded_bytes,
                        buffer_type |-> Lower(ts.buffer_type),
                        overhead_pct |-> [num |-> 0, den |-> 1]]
         IN IF padded_bytes > 0
            THEN IF unpadded_bytes = 0
                 THEN [result EXCEPT !.returned = FALSE, !.raised = TRUE]
                 ELSE [result EXCEPT !.overhead_pct =
                          [num |-> (padded_bytes - unpadded_bytes) * 100,
                           den |-> unpadded_bytes]]
            ELSE result

layoutRest == <<coreVars, trimVars, peakVars, summaryVars, vizVars>>

ParseLayout ==
    /\ pc = "layout"
    /\ layout_info' = ParseTensorLayoutInfo(type_str)
    /\ pc' = "layout_done"
    /\ UNCHANGED <<type_str, layoutRest>>

\* tensor<...>, with or without memref<GRIDx!ttcore.tile<32x32, f32>, ...>
TileGrids ==
    {[matched |-> FALSE, grid_parses |-> FALSE, grid |-> <<>>,
      tile_h |-> 0, tile_w |-> 0]}
    \cup {[matched |-> TRUE, grid_parses |-> FALSE, grid |-> <<>>,
           tile_h |-> 32, tile_w |-> 32]}
    \cup {[matched |-> TRUE, grid_parses |-> TRUE, grid |-> g,
           tile_h |-> 32, tile_w |-> 32] :
             g \in SeqsUpTo({0, 2, 3, 4, 5}, MaxGridDims) \ {<<>>}}

TypeStrs ==
    {[shape |-> shape, dtype |-> dtype, buffer_type |-> buf, memref |-> m] :
        shape \in SeqsUpTo({0, 64, 128}, MaxShapeDims),
        dtype \in {"f32", "bf16", None},
        buf \in {None, "dram", "L1"},
        m \in TileGrids}

InitLayout ==
    /\ pc = "layout"
    /\ type_str \in TypeStrs
    /\ layout_info = NoLayoutInfo
    /\ CoreIdle
    /\ TrimIdle /\ PeakIdle /\ SummaryIdle /\ VizIdle

NextLayout == ParseLayout

SpecLayout == InitLayout /\ [][NextLayout]_vars

----------------------------------------------------------------------------
(* C24: parse_tensor_layout_info computes overhead_pct = (padded_bytes -
   unpadded_bytes) / unpadded_bytes * 100 and yields overhead_pct = 0 without
   raising whenever unpadded_bytes is 0, also when the tiled padded_bytes is
   positive; for a tile grid of two or more dimensions padded_shape replaces
   the grid's last two dimensions by grid[-2]*H and grid[-1]*W (grid 3x5 of
   32x32 tiles over tensor<64x128xf32>: padded_shape [96,160], padded_bytes
   61440, overhead 87.5). *)

TypeParses == type_str.shape # <<>> /\ type_str.dtype # None

LastTwoTiled ==
    LET g == type_str.memref.grid
        n == Len(g)
    IN /\ Len(layout_info.padded_shape) = n
       /\ \A k \in 1..n - 2 : layout_info.padded_shape[k] = g[k]
       /\ layout_info.padded_shape[n - 1] = g[n - 1] * type_str.memref.tile_h
       /\ layout_info.padded_shape[n] = g[n] * type_str.memref.tile_w

C24_Example ==
    (/\ type_str.shape = <<64, 128>> /\ type_str.dtype = "f32"
     /\ type_str.memref.matched /\ type_str.memref.grid = <<3, 5>>)
    => /\ layout_info.returned
       /\ layout_info.padded_shape = <<96, 160>>
       /\ layout_info.padded_bytes = 61440
       /\ layout_info.overhead_pct.num * 10 = 875 * layout_info.overhead_pct.den

C24_OverheadAndPaddedShape ==
    (pc = "layout_done" /\ TypeParses) =>
        /\ ~layout_info.raised
        /\ layout_info.returned
        /\ IF layout_info.unpadded_bytes = 0
           THEN layout_info.overhead_pct.num = 0
           ELSE layout_info.overhead_pct =
                    [num |-> (layout_info.padded_bytes
                                 - layout_info.unpadded_bytes) * 100,
                     den |-> layout_info.unpadded_bytes]
        /\ (/\ type_str.memref.matched /\ type_str.memref.grid_parses
            /\ Len(type_str.memref.grid) >= 2) => LastTwoTiled
        /\ C24_Example

----------------------------------------------------------------------------
(* ttchop/summary.py: generate_summary on the module list of
   unique_modules.json as the runner left it.  A failed operator is the
   record of the four fields its deduplication key is made of; the error
   message and trace that _enrich_failed_ops adds take no part in the key
   and are left out.  What _match_ttir_attrs finds in a module's TTIR files
   is the module's ttir_attrs, "" when it finds nothing. *)

MaxReportModules == 3

FailedOp(op_name, op_params) ==
    [op_name |-> op_name, inputs |-> "[1,32]", outputs |-> "[1,32]",
     op_params |-> op_params]

\* lines 165-171: op_params = _match_ttir_attrs(...) or op.get("op_params", "")
EnrichFailedOp(op, m) ==
    [op EXCEPT !.op_params = IF m.ttir_attrs # "" THEN m.ttir_attrs ELSE @]

\* lines 182-187: parent_of holds the modules whose parent is not None
HasParentOf(ms, path) ==
    \E k \in DOMAIN ms : ms[k].module_path = path /\ ms[k].parent # NoPath

ParentOf(ms, path) ==
    LET k == CHOOSE k \in DOMAIN ms :
                 ms[k].module_path = path /\ ms[k].parent # NoPath
    IN ms[k].parent

\* lines 191-200: get_depth
RECURSIVE GetDepth(_, _)
GetDepth(ms, path) ==
    IF ~HasParentOf(ms, path) THEN 0
    ELSE GetDepth(ms, ParentOf(ms, path)) + 1

\* lines 221-224
Collected(m) ==
    /\ m.status \in {"failed", "ir_export_failed"}
    /\ m.class_name \notin CONTAINER_TYPES

\* lines 235-245: one failed operator of module m
CollectOp(unique, op, m, depth) ==
    LET seen == {u \in DOMAIN unique : unique[u].key = op} IN
    IF seen = {}
    THEN Append(unique, [key |-> op, module_class |-> m.class_name,
                         module_path |-> m.module_path, depth |-> depth])
    ELSE [u \in DOMAIN unique |->
             IF u \in seen /\ depth > unique[u].depth
             THEN [unique[u] EXCEPT !.module_class = m.class_name,
                                    !.module_path = m.module_path,
                                    !.depth = depth]
             ELSE unique[u]]

\* lines 234-245: the failed operators of m from the j-th on
RECURSIVE CollectFrom(_, _, _, _)
CollectFrom(unique, m, j, depth) ==
    IF j > Len(m.failed_ops) THEN unique
    ELSE CollectFrom(CollectOp(unique, EnrichFailedOp(m.failed_ops[j], m), m, depth),
                     m, j + 1, depth)

\* lines 216-251: the modules from the k-th on; _depth is popped at the end
RECURSIVE CollectUniqueFailedOps(_, _, _)
CollectUniqueFailedOps(ms, k, unique) ==
    IF k > Len(ms)
    THEN [u \in DOMAIN unique |->
             [key |-> unique[u].key, module_class |-> unique[u].module_class,
              module_path |-> unique[u].module_path]]
    ELSE IF Collected(ms[k])
    THEN CollectUniqueFailedOps(ms, k + 1,
             CollectFrom(unique, ms[k], 1, GetDepth(ms, ms[k].module_path)))
    ELSE CollectUniqueFailedOps(ms, k + 1, unique)

\* lines 257-280: the header's verdict and count, the closing line of a
\* report without failures, the rows of the table
BuildMarkdown(overall, ops) ==
    [written |-> TRUE, passed |-> overall = "PASSED", n_failed |-> Len(ops),
     all_passed_line |-> ops = <<>>,
     rows |-> Len(ops)]

\* line 352
HasFailures(ms) ==
    \E k \in DOMAIN ms : ms[k].status \in {"failed", "ir_export_failed"}

summaryRest == <<coreVars, trimVars, peakVars, layoutVars, vizVars>>

\* lines 340-358
GenerateSummary ==
    /\ pc = "summary"
    /\ LET ops == CollectUniqueFailedOps(report_modules, 1, <<>>) IN
          /\ unique_ops' = ops
          /\ summary_md' =
                 BuildMarkdown(IF HasFailures(report_modules)
                               THEN "FAILED" ELSE "PASSED", ops)
    /\ pc' = "summary_done"
    /\ UNCHANGED <<report_modules, summaryRest>>

\* what the runner leaves on a module: a container carries a rolled-up
\* status and no failed operators, a module has failed operators exactly
\* when its status is failed
ReportOutcomes ==
    {[class_name |-> "Sequential", status |-> "success", failed_ops |-> <<>>,
      ttir_attrs |-> ""],
     [class_name |-> "Sequential", status |-> "failed", failed_ops |-> <<>>,
      ttir_attrs |-> ""],
     [class_name |-> "Linear", status |-> "success", failed_ops |-> <<>>,
      ttir_attrs |-> "transpose_b = false"],
     [class_name |-> "Linear", status |-> "ir_export_failed", failed_ops |-> <<>>,
      ttir_attrs |-> ""],
     [class_name |-> "Linear", status |-> "failed",
      failed_ops |-> <<FailedOp("ttir.matmul", "")>>, ttir_attrs |-> ""],
     [class_name |-> "Linear", status |-> "failed",
      failed_ops |-> <<FailedOp("ttir.matmul", "")>>,
      ttir_attrs |-> "transpose_b = false"],
     [class_name |-> "Linear", status |-> "failed",
      failed_ops |-> <<FailedOp("ttir.add", "")>>, ttir_attrs |-> ""],
     [class_name |-> "Linear", status |-> "failed",
      failed_ops |-> <<FailedOp("ttir.matmul", ""), FailedOp("ttir.matmul", "")>>,
      ttir_attrs |-> ""],
     [class_name |-> "Linear", status |-> "failed",
      failed_ops |-> <<FailedOp("ttir.matmul", ""), FailedOp("ttir.add", "")>>,
      ttir_attrs |-> ""]}

ReportModule(path, outcome) ==
    [module_path |-> path, parent |-> GetParentPath(path),
     class_name |-> outcome.class_name, status |-> outcome.status,
     failed_ops |-> outcome.failed_ops, ttir_attrs |-> outcome.ttir_attrs]

\* the root module first, then distinct submodules; a module whose parent
\* duplicates an earlier module is listed without that parent
ReportPaths ==
    {ps \in SeqsUpTo(ModulePaths, MaxReportModules) :
        /\ ps # <<>> /\ ps[1] = RootPath
        /\ \A j, k \in DOMAIN ps : j # k => ps[j] # ps[k]}

InitSummary ==
    /\ pc = "summary"
    /\ \E ps \in ReportPaths : \E outcomes \in [DOMAIN ps -> ReportOutcomes] :
          report_modules = [k \in DOMAIN ps |-> ReportModule(ps[k], outcomes[k])]
    /\ unique_ops = <<>> /\ summary_md = NoSummary
    /\ CoreIdle
    /\ TrimIdle /\ PeakIdle /\ LayoutIdle /\ VizIdle

NextSummary == GenerateSummary

SpecSummary == InitSummary /\ [][NextSummary]_vars

----------------------------------------------------------------------------
(* C22: _collect_unique_failed_ops reports each distinct (operator name,
   input descriptor, output descriptor, recovered parameters) tuple exactly
   once across all failed non-container modules, and the module attributed
   to it is an occurrence with the greatest tree depth from the root among
   all failed modules that reported that tuple. *)

\* the failed non-container modules whose enriched failed operators hold op
Reporters(op) ==
    {k \in DOMAIN report_modules :
        /\ Collected(report_modules[k])
        /\ \E j \in DOMAIN report_modules[k].failed_ops :
               EnrichFailedOp(report_modules[k].failed_ops[j],
                              report_modules[k]) = op}

ReportedOps ==
    UNION {{EnrichFailedOp(report_modules[k].failed_ops[j], report_modules[k]) :
               j \in DOMAIN report_modules[k].failed_ops} :
           k \in {k \in DOMAIN report_modules : Collected(report_modules[k])}}

\* the depth of a module in the model's tree: its path's number of parts
TreeDepth(path) == IF path = RootPath THEN 0 ELSE Len(path)

EachTupleOnce ==
    /\ {unique_ops[u].key : u \in DOMAIN unique_ops} = ReportedOps
    /\ \A u, v \in DOMAIN unique_ops :
           unique_ops[u].key = unique_ops[v].key => u = v

C22_OncePerTupleDeepestModule ==
    pc = "summary_done" =>
        /\ EachTupleOnce
        /\ \A u \in DOMAIN unique_ops :
              \E k \in Reporters(unique_ops[u].key) :
                  /\ report_modules[k].module_path = unique_ops[u].module_path
                  /\ report_modules[k].class_name = unique_ops[u].module_class
                  /\ \A j \in Reporters(unique_ops[u].key) :
                         TreeDepth(report_modules[j].module_path)
                             <= TreeDepth(report_modules[k].module_path)

----------------------------------------------------------------------------
(* C30: generate_summary's header and body agree: the header reads PASSED
   if and only if no module has status failed or ir_export_failed, and the
   body line "All operations passed successfully." is emitted only when the
   header reads PASSED. *)
C30_HeaderAndBodyAgree ==
    pc = "summary_done" =>
        /\ summary_md.written
        /\ summary_md.passed <=>
               \A k \in DOMAIN report_modules :
                   report_modules[k].status \notin {"failed", "ir_export_failed"}
        /\ summary_md.all_passed_line => summary_md.passed

(***************************************************************************)
(* visualizer.py: _build_tree turns the flat list of unique modules of the *)
(* analysis report into the nested tree the HTML page renders.              *)
(***************************************************************************)

MaxOccurrences == 4    \* a model has at most this many named submodules

\* the named submodules a model is drawn from, in named_modules() order
SubmoduleNames == << <<"a">>, <<"a", "b">>, <<"d">>, <<"d", "b">>, <<"d", "b", "c">> >>

\* named_modules() of a model: the root, then submodules, each after its parent
NamedModuleLists ==
    LET names == SubSeq(SubmoduleNames, 1, MaxOccurrences) IN
    {LET Chosen(p) == p \in S IN <<RootPath>> \o SelectSeq(names, Chosen) :
        S \in {T \in SUBSET Range(names) :
                  \A p \in T : Len(p) > 1 => SubSeq(p, 1, Len(p) - 1) \in T}}

\* the ways extract_unique_modules groups named modules: group numbers in order of first member
Groupings(n) ==
    {g \in [1..n -> 1..n] :
        /\ g[1] = 1
        /\ \A k \in 2..n : g[k] <= 1 + SetMax({g[h] : h \in 1..k - 1})}

\* data["modules"] of a report: one record per group; status None is a record without the key
ReportedModule(names, g, st, gi) ==
    LET InGroup(p) == \E k \in DOMAIN names : names[k] = p /\ g[k] = gi
        occurrences == SelectSeq(names, InGroup) IN
    [id |-> gi, module_path |-> Head(occurrences), occurrences |-> occurrences,
     status |-> st[gi]]

VizStatuses == {"success", "failed", None}

\* lines 126-136: the node by_path gets for one occurrence of mod
VizNode(mod, occ_path) ==
    [id |-> mod.id,
     module_path |-> occ_path,
     parent |-> GetParentPath(occ_path),
     status |-> IF mod.status = None THEN "unknown" ELSE mod.status,
     is_copy |-> occ_path # mod.module_path,
     original_path |-> IF occ_path # mod.module_path THEN mod.module_path ELSE NoPath]

\* line 126: by_path[occ_path] = node; a key already present keeps its place
PutNode(bp, nd) ==
    IF \E k \in DOMAIN bp : bp[k].module_path = nd.module_path
    THEN [k \in DOMAIN bp |->
             IF bp[k].module_path = nd.module_path THEN nd ELSE bp[k]]
    ELSE Append(bp, nd)

RECURSIVE PutNodes(_, _)
PutNodes(bp, nodes) ==
    IF nodes = <<>> THEN bp ELSE PutNodes(PutNode(bp, Head(nodes)), Tail(nodes))

\* lines 115-136: by_path after the loop over modules and their occurrences
ByPath(ms) ==
    PutNodes(<<>>, Flatten([k \in DOMAIN ms |->
        [j \in DOMAIN ms[k].occurrences |-> VizNode(ms[k], ms[k].occurrences[j])]]))

\* line 146: the node returned when no node has parent None
EmptyNode == <<"empty">>

\* lines 138-146: the root returned and the children list of every node of by_path
LinkNodes(bp) ==
    LET keys == {bp[k].module_path : k \in DOMAIN bp}
        tops == {k \in DOMAIN bp : bp[k].parent = NoPath} IN
    [root |-> IF tops = {} THEN EmptyNode ELSE bp[SetMax(tops)].module_path,
     children |-> [p \in keys |->
         LET ChildOf(nd) == nd.parent # NoPath /\ nd.parent = p
             held == SelectSeq(bp, ChildOf) IN
         [k \in DOMAIN held |-> held[k].module_path]]]

\* _build_tree(data, output_dir)
BuildTree ==
    /\ pc = "viz"
    /\ by_path' = ByPath(viz_modules)
    /\ viz_tree' = LinkNodes(by_path')
    /\ pc' = "viz_built"
    /\ UNCHANGED <<viz_modules, coreVars, trimVars, peakVars, layoutVars, summaryVars>>

InitViz ==
    /\ pc = "viz"
    /\ \E names \in NamedModuleLists : \E g \in Groupings(Len(names)) :
          \E st \in [1..SetMax(Range(g)) -> VizStatuses] :
              viz_modules = [gi \in 1..SetMax(Range(g)) |->
                                ReportedModule(names, g, st, gi)]
    /\ by_path = <<>>
    /\ viz_tree = NoVizTree
    /\ CoreIdle /\ TrimIdle /\ PeakIdle /\ LayoutIdle /\ SummaryIdle

NextViz == BuildTree

SpecViz == InitViz /\ [][NextViz]_vars

\* the paths of the nodes the page renders below (and including) path
RECURSIVE VizReachable(_)
VizReachable(path) ==
    IF path \notin DOMAIN viz_tree.children THEN {path}
    ELSE {path} \cup UNION {VizReachable(c) : c \in Range(viz_tree.children[path])}

\* the places of the returned tree that hold path: the root, or a slot of a children list
VizPlaces(path) ==
    (IF viz_tree.root = path THEN {<<NoPath, 0>>} ELSE {})
    \cup {<<p, k>> \in VizReachable(viz_tree.root) \X (1..MaxOccurrences + 2) :
            /\ p \in DOMAIN viz_tree.children
            /\ k \in DOMAIN viz_tree.children[p]
            /\ viz_tree.children[p][k] = path}

NodeAt(path) == by_path[CHOOSE k \in DOMAIN by_path : by_path[k].module_path = path]

\* C23: the display tree holds exactly one node for every recorded occurrence
\* path of every unique module, each reachable from the root node; every
\* occurrence other than its module's canonical path is flagged is_copy and
\* carries the canonical module's status.
C23_TreeHoldsEveryOccurrence ==
    pc = "viz_built" =>
        \A k \in DOMAIN viz_modules :
            \A j \in DOMAIN viz_modules[k].occurrences :
                LET occ == viz_modules[k].occurrences[j]
                    canonical == viz_modules[k].module_path IN
                /\ Cardinality(VizPlaces(occ)) = 1
                /\ occ \in VizReachable(viz_tree.root)
                /\ occ # canonical =>
                      /\ NodeAt(occ).is_copy
                      /\ NodeAt(occ).original_path = canonical
                      /\ NodeAt(occ).status = NodeAt(canonical).status

====
